---------------------------- MODULE Spec2Model ----------------------------
(***************************************************************************)
(* A model of the corporate-events analyzer: the gap analysis of /analyze  *)
(* (src/server.py), the event extraction and enrichment pass               *)
(* (src/searxng_analyzer.py) and the normalization helpers (src/app.py).   *)
(*                                                                         *)
(* Representation.  A Python dict is a function from its keys (strings) to *)
(* values; dict.get(k, d) is Get.  A Python str is the sequence of its     *)
(* atoms: an atom is the whitespace atom " " or a chunk of characters      *)
(* without whitespace, and the string is their concatenation (the empty    *)
(* string is <<>>).  A word is a maximal run of atoms without whitespace.   *)
(* str.lower() maps every atom through the table Lower, str.strip() drops  *)
(* leading and trailing whitespace atoms, str.split() yields the words.    *)
(* Strings that take part in substring tests or len() are spelled one      *)
(* character per atom, which makes those operations exact.                 *)
(***************************************************************************)
EXTENDS Integers, Sequences, FiniteSets, TLC

VARIABLES
    pc,              \* position of the modelled handler
    ai_event,        \* events_match: the AI event (a dict)
    db_event,        \* events_match: the database event (a dict)
    similar,         \* events_match: the value returned
    ai_events,       \* /analyze: list returned by generate_corporate_events
    db_events,       \* /analyze: list returned by the database lookup
    matched_events,  \* /analyze: AI events found in the database
    missing_events,  \* /analyze: AI events not found in the database
    keys,            \* the API keys of the environment
    max_events,      \* generate_corporate_events: its argument
    raw,             \* generate_corporate_events: the reply of the LLM
    result,          \* the list of events being built, enriched and returned
    idx,             \* enrichment: position of the loop over the events
    raised,          \* whether an exception left the function
    before,          \* history: the events as the enrichment pass received them
    sent,            \* history: requests sent, per event
    outcomes,        \* history: what happened to each event, in order
    data,            \* normalization helpers: the value passed in
    normalized,      \* normalization helpers: the outcome of the call
    normalized_twice, \* the outcome of the call on the value returned
    mg_counterparties, \* enrichment merge: the counterparties of the event
    mg_reply,        \* enrichment merge: the reply
    mg_once,         \* the outcome of merging the reply
    mg_twice,        \* the outcome of merging the reply again
    endpoint,        \* server: the route handling the request
    query,           \* server: the "query" field of the payload
    steps,           \* history: the steps the handler started, in order
    outstanding,     \* history: the external calls not yet returned
    summary_md,      \* server: the text returned by generate_summary
    existing_company, \* server: value of check_company_by_url
    db_company,      \* server: value of get_company_by_id
    ai_overview,     \* server: the overview built from the AI texts
    top_management,  \* server: the list kept from get_top_management
    status_code,     \* server: status of the response, 0 before it
    response,        \* server: the JSON body of the response
    escaped,         \* server: whether an exception left the handler
    app_matched_events, \* app.py: AI events found in the database
    app_missing_events,\* app.py: AI events not found in the database
    management_results, \* get_top_management: the entries parsed from the model replies
    tm_calls,        \* get_top_management: the model calls made so far, in order
    tm_i,            \* get_top_management: position of the LinkedIn loop
    clean_data,      \* get_top_management: the returned list
    tm_raised,       \* get_top_management: an exception reached the caller
    sq_keys,         \* search loops: the API keys of the environment
    sq_fn,           \* search loops: the function that runs
    sq_loop,         \* search loops: the loop that runs
    sq_queries,      \* search loops: the number of queries of the loop
    sq_done,         \* search loops: the queries of the loop already issued
    sq_trace,        \* search loops: the requests and sleeps so far, in order
    search_results,  \* generate_corporate_events: the collected results
    seen_urls,       \* generate_corporate_events: the links already collected
    sq_result        \* search loops: the value returned

matchVars == <<ai_event, db_event, similar>>
gapVars == <<ai_events, db_events, matched_events, missing_events>>
evVars == <<keys, max_events, raw, result, idx, raised, before, sent, outcomes>>
normVars == <<data, normalized, normalized_twice>>
mergeVars == <<mg_counterparties, mg_reply, mg_once, mg_twice>>
srvVars == <<endpoint, query, steps, outstanding, summary_md, existing_company, db_company,
             ai_overview, top_management, status_code, response, escaped>>
appVars == <<app_matched_events, app_missing_events>>
mgmtVars == <<management_results, tm_calls, tm_i, clean_data, tm_raised>>
searchVars == <<sq_keys, sq_fn, sq_loop, sq_queries, sq_done, sq_trace, search_results, seen_urls, sq_result>>
vars == <<pc, matchVars, gapVars, evVars, normVars, mergeVars, srvVars, appVars, mgmtVars, searchVars>>

\* Values of variables a specification does not use.
IdleMatch == ai_event = <<>> /\ db_event = <<>> /\ similar = FALSE
IdleGap ==
    /\ ai_events = <<>> /\ db_events = <<>>
    /\ matched_events = <<>> /\ missing_events = <<>>

IdleEvents ==
    /\ keys = {} /\ max_events = 0 /\ raw = <<>> /\ result = <<>> /\ idx = 0
    /\ raised = FALSE /\ before = <<>> /\ sent = <<>> /\ outcomes = <<>>

NotCalled == [raised |-> FALSE, value |-> <<>>]

IdleNorm ==
    /\ data = [t |-> "none", kind |-> "", items |-> <<>>]
    /\ normalized = NotCalled
    /\ normalized_twice = NotCalled

NotMerged == [list |-> FALSE, cps |-> <<>>, exc |-> FALSE]

IdleMerge ==
    /\ mg_counterparties = <<>>
    /\ mg_reply = [form |-> "text", entries |-> <<>>]
    /\ mg_once = NotMerged
    /\ mg_twice = NotMerged

\* None, as the value of a database lookup, and as the AI overview.
NoValue == [some |-> FALSE, hasid |-> FALSE, id |-> 0, good |-> FALSE]
NoOverview == [some |-> FALSE, parsed |-> FALSE]
IdleServer ==
    /\ endpoint = "" /\ query = <<>> /\ steps = <<>> /\ outstanding = {}
    /\ summary_md = <<>>
    /\ existing_company = NoValue /\ db_company = NoValue
    /\ ai_overview = NoOverview /\ top_management = <<>>
    /\ status_code = 0 /\ response = <<>> /\ escaped = FALSE

IdleApp ==
    app_matched_events = <<>> /\ app_missing_events = <<>>

IdleMgmt ==
    /\ management_results = <<>> /\ tm_calls = <<>> /\ tm_i = 0
    /\ clean_data = <<>> /\ tm_raised = FALSE

IdleSearch ==
    /\ sq_keys = {} /\ sq_fn = "" /\ sq_loop = "" /\ sq_queries = 0 /\ sq_done = 0
    /\ sq_trace = <<>> /\ search_results = <<>> /\ seen_urls = {}
    /\ sq_result = ""

(***************************************************************************)
(* Bounds of the model.                                                    *)
(***************************************************************************)
MaxWords == 2      \* tokens of a generated text
MaxAI == 2         \* AI events of one gap analysis
MaxDB == 2         \* database events of one gap analysis
MaxTokens == 3     \* tokens of a generated LLM reply
MaxEvents == 2     \* elements of a generated JSON array of events
MaxEventsArg == 2  \* the argument max_events
MaxEntries == 2    \* entries of a generated enrichment reply
MaxBlocks == 2     \* blocks of a generated legacy event text
MaxMgmt == 2       \* entries of a generated management list
MaxCps == 2        \* counterparties of a generated event
MaxMembers == 2    \* elements of a management reply
MaxResults == 2    \* results of one search query
MaxQueries == 2    \* queries of the event search outside testing mode

(***************************************************************************)
(* Python helpers.                                                         *)
(***************************************************************************)
Get(d, k, default) == IF k \in DOMAIN d THEN d[k] ELSE default

SeqsUpTo(S, n) == UNION {[1..k -> S] : k \in 0..n}

Max(a, b) == IF a >= b THEN a ELSE b

Min(a, b) == IF a <= b THEN a ELSE b

\* str.lower() on the words of the model.
Lower(w) ==
    CASE w = "Acme" -> "acme"
      [] w = "Corp" -> "corp"
      [] w = "Widget" -> "widget"
      [] w = "Inc" -> "inc"
      [] w = "Beta" -> "beta"
      [] w = "Series" -> "series"
      [] w = "A" -> "a"
      [] w = "The" -> "the"
      [] w = "B" -> "b"
      [] w = "C" -> "c"
      [] w = "D" -> "d"
      [] w = "J" -> "j"
      [] w = "W" -> "w"
      [] w = "I" -> "i"
      [] w = "Jane" -> "jane"
      [] w = "JANE" -> "jane"
      [] w = "Doe" -> "doe"
      [] w = "Bob" -> "bob"
      [] w = "BOB" -> "bob"
      [] w = "Target" -> "target"
      [] w = "Investor" -> "investor"
      [] w = "Majority" -> "majority"
      [] w = "Licensing" -> "licensing"
      [] w = "Partner" -> "partner"
      [] w = "Acquirer" -> "acquirer"
      [] OTHER -> w

IsSpace(w) == w = " "

RECURSIVE LStrip(_)
LStrip(text) ==
    IF text # <<>> /\ IsSpace(Head(text)) THEN LStrip(Tail(text)) ELSE text

RECURSIVE RStrip(_)
RStrip(text) ==
    IF text # <<>> /\ IsSpace(text[Len(text)])
    THEN RStrip(SubSeq(text, 1, Len(text) - 1))
    ELSE text

\* str.strip()
StripText(text) == RStrip(LStrip(text))

\* str.lower()
LowerText(text) == [i \in DOMAIN text |-> Lower(text[i])]

\* str.split(): the words between runs of whitespace, in order.  cur is the
\* word being read.
RECURSIVE SplitFrom(_, _)
SplitFrom(text, cur) ==
    IF text = <<>> THEN (IF cur = <<>> THEN <<>> ELSE <<cur>>)
    ELSE IF IsSpace(Head(text))
         THEN (IF cur = <<>> THEN <<>> ELSE <<cur>>) \o SplitFrom(Tail(text), <<>>)
         ELSE SplitFrom(Tail(text), Append(cur, Head(text)))

Split(text) == SplitFrom(text, <<>>)

\* " ".join(words)
RECURSIVE JoinWords(_)
JoinWords(words) ==
    IF words = <<>> THEN <<>>
    ELSE IF Len(words) = 1 THEN <<words[1]>>
    ELSE <<words[1], " ">> \o JoinWords(Tail(words))

\* set(list)
SetOf(s) == {s[i] : i \in DOMAIN s}

(***************************************************************************)
(* Gap analysis of /analyze: src/server.py lines 738-787.                  *)
(***************************************************************************)
stop_words ==
    {<<w>> : w \in {"the", "a", "an", "and", "or", "to", "of", "in", "for",
                    "with", "by", "from", "its", "as"}}

ThresholdNum == 4
ThresholdDen == 10

normalize_text(text) == StripText(LowerText(text))

extract_keywords(text) ==
    IF text = <<>> THEN {}
    ELSE SetOf(Split(normalize_text(text))) \ stop_words

\* The mutants of events_match: a strict comparison, and the smaller set as
\* the denominator.
events_match_strict(ai, db) ==
    LET ai_keywords == extract_keywords(Get(ai, "Event (short)", Get(ai, "event_short", <<>>)))
        db_keywords == extract_keywords(Get(db, "description", <<>>))
        overlap == Cardinality(ai_keywords \cap db_keywords)
        max_len == Max(Cardinality(ai_keywords), Cardinality(db_keywords))
    IN IF ai_keywords = {} \/ db_keywords = {} THEN FALSE
       ELSE overlap * ThresholdDen > ThresholdNum * max_len

\* similarity = overlap / max_len is an IEEE-754 division of two small
\* integers and 0.4 is the double nearest to 2/5: the quotient is correctly
\* rounded, so similarity >= 0.4 holds exactly when overlap / max_len >= 2/5
\* as rationals (for sets of fewer than 10^15 words).
events_match(ai, db) ==
    LET ai_name == Get(ai, "Event (short)", Get(ai, "event_short", <<>>))
        db_name == Get(db, "description", <<>>)
        ai_keywords == extract_keywords(ai_name)
        db_keywords == extract_keywords(db_name)
        overlap == Cardinality(ai_keywords \cap db_keywords)
        max_len == Max(Cardinality(ai_keywords), Cardinality(db_keywords))
    IN IF ai_keywords = {} \/ db_keywords = {} THEN FALSE
       ELSE IF max_len > 0
            THEN overlap * ThresholdDen >= ThresholdNum * max_len
            ELSE FALSE

\* The loop of /analyze over ai_events: <<matched, missing>> after the events
\* from position i on have been classified.
RECURSIVE GapLoop(_, _, _, _, _)
GapLoop(ai, db, i, matched, missing) ==
    IF i > Len(ai) THEN <<matched, missing>>
    ELSE IF \E j \in DOMAIN db : events_match(ai[i], db[j])
         THEN GapLoop(ai, db, i + 1, Append(matched, ai[i]), missing)
         ELSE GapLoop(ai, db, i + 1, matched, Append(missing, ai[i]))

\* A mutant of gap_analysis: without the else branch, an empty database list
\* leaves missing_events empty.
gap_analysis_no_else(ai, db) ==
    IF ai # <<>> /\ db # <<>> THEN GapLoop(ai, db, 1, <<>>, <<>>)
    ELSE <<<<>>, <<>>>>

gap_analysis(ai, db) ==
    IF ai # <<>> /\ db # <<>>
    THEN GapLoop(ai, db, 1, <<>>, <<>>)
    ELSE <<<<>>, ai>>

(***************************************************************************)
(* The gap analysis of the comparison view of app.py.                      *)
(***************************************************************************)
\* app.py, lines 871-875.
app_normalize_text(text) ==
    IF text = <<>> THEN <<>> ELSE StripText(LowerText(text))

\* app.py, lines 877-884.
app_extract_keywords(text) ==
    IF text = <<>> THEN {}
    ELSE SetOf(Split(app_normalize_text(text))) \ stop_words

\* app.py, lines 886-901.
app_events_match(ai, db) ==
    LET ai_name == Get(ai, "Event (short)", Get(ai, "event_short", <<>>))
        db_name == Get(db, "description", <<>>)
        ai_keywords == app_extract_keywords(ai_name)
        db_keywords == app_extract_keywords(db_name)
        overlap == Cardinality(ai_keywords \cap db_keywords)
        max_len == Max(Cardinality(ai_keywords), Cardinality(db_keywords))
    IN IF ai_keywords = {} \/ db_keywords = {} THEN FALSE
       ELSE IF max_len > 0
            THEN overlap * ThresholdDen >= ThresholdNum * max_len
            ELSE FALSE

\* A mutant of app_inner_loop: without the break, the AI event is appended
\* once for every database event it matches.
RECURSIVE app_inner_loop_no_break(_, _, _, _)
app_inner_loop_no_break(ai_ev, db, j, matched) ==
    IF j > Len(db) THEN matched
    ELSE IF app_events_match(ai_ev, db[j])
         THEN app_inner_loop_no_break(ai_ev, db, j + 1, Append(matched, ai_ev))
         ELSE app_inner_loop_no_break(ai_ev, db, j + 1, matched)

\* app.py, lines 910-914: matched_events after the loop over the database
\* events from position j on, which ends at the first match.
RECURSIVE app_inner_loop(_, _, _, _)
app_inner_loop(ai_ev, db, j, matched) ==
    IF j > Len(db) THEN matched
    ELSE IF app_events_match(ai_ev, db[j]) THEN Append(matched, ai_ev)
         ELSE app_inner_loop(ai_ev, db, j + 1, matched)

\* app.py, lines 904-916: <<matched, missing>> after the AI events from
\* position i on; is_matched is set by a matching database event.
RECURSIVE app_gap_loop(_, _, _, _, _)
app_gap_loop(ai, db, i, matched, missing) ==
    IF i > Len(ai) THEN <<matched, missing>>
    ELSE LET is_matched == \E j \in DOMAIN db : app_events_match(ai[i], db[j])
         IN app_gap_loop(ai, db, i + 1,
                         app_inner_loop(ai[i], db, 1, matched),
                         IF is_matched THEN missing ELSE Append(missing, ai[i]))

\* app.py, lines 76-89 and 866: the list of the lookup, None on an error,
\* after 'or []'.
app_db_corporate_events(reply) == IF reply.failed THEN <<>> ELSE reply.doc

app_gap_analysis(ai, db) == app_gap_loop(ai, db, 1, <<>>, <<>>)

(***************************************************************************)
(* JSON values of an LLM reply: a string, an integer or null.  A JSON      *)
(* object is a dict of such values; Absent stands for a key the object     *)
(* does not carry.                                                         *)
(***************************************************************************)
JStr(text) == [t |-> "str", s |-> text, n |-> 0]
JInt(k) == [t |-> "int", s |-> <<>>, n |-> k]
JNull == [t |-> "null", s |-> <<>>, n |-> 0]
Absent == [t |-> "absent", s |-> <<>>, n |-> 0]

\* The dict {k: v}, or the empty dict when v is Absent.
Opt(k, v) == IF v = Absent THEN <<>> ELSE (k :> v)

\* The decimal spelling of the integers of the model.
Numeral(k) ==
    CASE k = 0 -> "0"
      [] k = 17 -> "17"
      [] k = 18 -> "18"
      [] k = 19 -> "19"
      [] k = 20 -> "20"
      [] k = 24 -> "24"
      [] k = 25 -> "25"
      [] k = 26 -> "26"
      [] k = 99 -> "99"

KnownInts == {0, 17, 18, 19, 20, 24, 25, 26, 99}

\* str(v): str(None) is 'None', str of a str is the str itself.
py_str(v) ==
    IF v.t = "str" THEN v.s
    ELSE IF v.t = "null" THEN <<"None">>
    ELSE <<Numeral(v.n)>>

IsNumeral(text) == \E k \in KnownInts : StripText(text) = <<Numeral(k)>>

\* The exception int(v) raises, "none" when it returns: int(None) is a
\* TypeError, int of a non-numeric str a ValueError.
py_int_exc(v) ==
    IF v.t = "null" THEN "TypeError"
    ELSE IF v.t = "str" /\ ~IsNumeral(v.s) THEN "ValueError"
    ELSE "none"

\* int(v), where it returns: surrounding whitespace of a str is ignored.
py_int(v) ==
    IF v.t = "int" THEN v.n
    ELSE CHOOSE k \in KnownInts : StripText(v.s) = <<Numeral(k)>>

(***************************************************************************)
(* The text of an LLM reply, as the sequence of its lexical tokens:        *)
(*   "["  "]"  ","   the punctuation of a JSON array;                      *)
(*   "txt"  text that is no JSON and holds no bracket (commentary, a code  *)
(*          fence);                                                        *)
(*   "num"  a JSON scalar;                                                 *)
(*   "obj"  a complete JSON object, o its dict; its text holds brackets    *)
(*          when one of its values is an array;                            *)
(*   "frag" an object cut off inside its counterparties array, so that its *)
(*          text holds a '[' and no ']'.                                   *)
(***************************************************************************)
Tok(k) == [k |-> k, o |-> <<>>]
ObjTok(o) == [k |-> "obj", o |-> o]

HasArrays(o) == "counterparties" \in DOMAIN o \/ "advisors" \in DOMAIN o

HasOpen(tok) ==
    tok.k = "[" \/ tok.k = "frag" \/ (tok.k = "obj" /\ HasArrays(tok.o))

HasClose(tok) == tok.k = "]" \/ (tok.k = "obj" /\ HasArrays(tok.o))

\* raw.find('['): the position of the first token holding a '[', 0 when
\* there is none (Python's -1).
FindOpen(reply) ==
    IF \E i \in DOMAIN reply : HasOpen(reply[i])
    THEN CHOOSE i \in DOMAIN reply :
            HasOpen(reply[i]) /\ \A j \in 1..(i - 1) : ~HasOpen(reply[j])
    ELSE 0

\* raw.rfind(']') + 1: the position of the last token holding a ']', 0 when
\* there is none.
RFindClose(reply) ==
    IF \E i \in DOMAIN reply : HasClose(reply[i])
    THEN CHOOSE i \in DOMAIN reply :
            HasClose(reply[i]) /\ \A j \in (i + 1)..Len(reply) : ~HasClose(reply[j])
    ELSE 0

\* json.loads on a token sequence.  ParseValue is the position after the
\* JSON value that starts at i, 0 when none starts there; ParseItems reads
\* the elements of an array up to its ']'.
RECURSIVE ParseValue(_, _)
RECURSIVE ParseItems(_, _)
ParseValue(toks, i) ==
    IF i > Len(toks) THEN 0
    ELSE IF toks[i].k \in {"obj", "num"} THEN i + 1
    ELSE IF toks[i].k = "["
         THEN IF i + 1 <= Len(toks) /\ toks[i + 1].k = "]" THEN i + 2
              ELSE ParseItems(toks, i + 1)
    ELSE 0

ParseItems(toks, i) ==
    LET j == ParseValue(toks, i)
    IN IF j = 0 \/ j > Len(toks) THEN 0
       ELSE IF toks[j].k = "]" THEN j + 1
       ELSE IF toks[j].k = "," THEN ParseItems(toks, j + 1)
       ELSE 0

\* Whether json.loads(slice) returns.  A slice that ends inside an object
\* (its last token is an object with an array) is cut off and is no JSON.
json_valid(slice) ==
    /\ Len(slice) >= 2
    /\ slice[1].k = "["
    /\ slice[Len(slice)].k = "]"
    /\ ParseValue(slice, 1) = Len(slice) + 1

\* The elements of the array json.loads(slice) returns, from position i on:
\* objects and scalars as their tokens, a nested array as the token "arr".
RECURSIVE TopItems(_, _)
TopItems(toks, i) ==
    IF toks[i].k = "]" THEN <<>>
    ELSE LET j == ParseValue(toks, i)
             elem == IF toks[i].k = "[" THEN Tok("arr") ELSE toks[i]
         IN <<elem>> \o (IF toks[j].k = "," THEN TopItems(toks, j + 1) ELSE <<>>)

json_loads(slice) == TopItems(slice, 2)

(***************************************************************************)
(* generate_corporate_events, the transformation of the parsed array:      *)
(* src/searxng_analyzer.py lines 1548-1617.                                *)
(***************************************************************************)
EmptyStr == JStr(<<>>)

TransformIndividual(ind) ==
    [name |-> StripText(py_str(Get(ind, "name", EmptyStr))),
     title |-> StripText(py_str(Get(ind, "title", EmptyStr))),
     linkedin_url |-> StripText(py_str(Get(ind, "linkedin_url", EmptyStr)))]

\* Line 1567.
counterparty_type_id(cp) == py_int(Get(cp, "type_id", JInt(0)))

TransformCounterparty(cp) ==
    LET raw_individuals == Get(cp, "individuals", <<>>)
    IN [company_name |-> StripText(py_str(Get(cp, "company_name", EmptyStr))),
        type_id |-> counterparty_type_id(cp),
        type |-> StripText(py_str(Get(cp, "type", JStr(<<"Unknown">>)))),
        role_description |-> StripText(py_str(Get(cp, "role_description", EmptyStr))),
        company_linkedin_url |->
            StripText(py_str(Get(cp, "company_linkedin_url", EmptyStr))),
        press_release_url |-> StripText(py_str(Get(cp, "press_release_url", EmptyStr))),
        individuals |->
            [i \in DOMAIN raw_individuals |-> TransformIndividual(raw_individuals[i])]]

TransformAdvisor(adv) ==
    [advisor_name |-> StripText(py_str(Get(adv, "advisor_name", EmptyStr))),
     advisor_type |-> StripText(py_str(Get(adv, "advisor_type", EmptyStr))),
     advised_party |-> StripText(py_str(Get(adv, "advised_party", EmptyStr))),
     announcement_url |-> StripText(py_str(Get(adv, "announcement_url", EmptyStr)))]

\* A mutant of deal_status_of: a closed_date overrides the status supplied.
deal_status_closed_wins(e) ==
    LET closed_date == StripText(py_str(Get(e, "closed_date", EmptyStr)))
        deal_status == StripText(py_str(Get(e, "deal_status", EmptyStr)))
    IN IF closed_date # <<>> THEN <<"Completed">>
       ELSE IF deal_status = <<>> THEN <<"Unknown">>
       ELSE deal_status

\* Lines 1577 and 1586-1591.
deal_status_of(e) ==
    LET closed_date == StripText(py_str(Get(e, "closed_date", EmptyStr)))
        deal_status == StripText(py_str(Get(e, "deal_status", EmptyStr)))
    IN IF deal_status = <<>> /\ closed_date # <<>> THEN <<"Completed">>
       ELSE IF deal_status = <<>> THEN <<"Unknown">>
       ELSE deal_status

TransformEvent(e) ==
    LET raw_counterparties == Get(e, "counterparties", <<>>)
        raw_advisors == Get(e, "advisors", <<>>)
        announcement_date ==
            StripText(py_str(Get(e, "announcement_date", Get(e, "date", EmptyStr))))
        closed_date == StripText(py_str(Get(e, "closed_date", EmptyStr)))
        display_date ==
            IF announcement_date # <<>> THEN announcement_date
            ELSE IF closed_date # <<>> THEN closed_date
            ELSE <<"Unknown">>
        deal_type ==
            StripText(py_str(Get(e, "deal_type",
                                 Get(e, "event_type", JStr(<<"Unknown">>)))))
    IN ("Announcement Date" :> announcement_date)
       @@ ("Closed Date" :> closed_date)
       @@ ("Date" :> display_date)
       @@ ("Event (short)" :>
              StripText(py_str(Get(e, "event_short",
                                   Get(e, "event", JStr(<<"Unknown", " ", "event">>))))))
       @@ ("Description" :> StripText(py_str(Get(e, "description", EmptyStr))))
       @@ ("Deal Type" :> deal_type)
       @@ ("Deal Status" :> deal_status_of(e))
       @@ ("Event type" :> deal_type)
       @@ ("Event value (USD)" :>
              StripText(py_str(Get(e, "value_usd",
                                   Get(e, "value", JStr(<<"Undisclosed">>))))))
       @@ ("Source URL" :> StripText(py_str(Get(e, "source_url", EmptyStr))))
       @@ ("counterparties" :>
              [j \in DOMAIN raw_counterparties |->
                  TransformCounterparty(raw_counterparties[j])])
       @@ ("advisors" :>
              [j \in DOMAIN raw_advisors |-> TransformAdvisor(raw_advisors[j])])

\* The exception the transformation of one array element raises, "none" when
\* it returns: an element that is no object has no .get (AttributeError), and
\* int() raises on a type_id that is null or not numeric.
ElemExc(tok) ==
    IF tok.k # "obj" THEN "AttributeError"
    ELSE LET cps == Get(tok.o, "counterparties", <<>>)
             bad == {j \in DOMAIN cps :
                        py_int_exc(Get(cps[j], "type_id", JInt(0))) # "none"}
         IN IF bad = {} THEN "none"
            ELSE py_int_exc(Get(cps[CHOOSE j \in bad : \A k \in bad : j <= k],
                                    "type_id", JInt(0)))

\* The exception the loop over events[:max_events] raises: that of the first
\* element that raises.
LoopExc(elems) ==
    LET bad == {i \in DOMAIN elems : ElemExc(elems[i]) # "none"}
    IN IF bad = {} THEN "none"
       ELSE ElemExc(elems[CHOOSE i \in bad : \A k \in bad : i <= k])

\* A mutant of FirstN: the slice is one element too long.
FirstNPlusOne(elems, k) == SubSeq(elems, 1, Min(k + 1, Len(elems)))

\* events[:max_events], for max_events >= 0.
FirstN(elems, k) == SubSeq(elems, 1, Min(k, Len(elems)))

\* Lines 1537-1617 on the reply raw: nojson is the early return of line 1544,
\* exc the exception raised inside the try block ("none" when none is), and
\* events the list built.
extract_events(reply, k) ==
    LET start == FindOpen(reply)
        end == RFindClose(reply)
        slice == SubSeq(reply, start, end)
    IN IF start = 0 \/ end = 0
       THEN [nojson |-> TRUE, exc |-> "none", events |-> <<>>]
       ELSE IF ~json_valid(slice)
       THEN [nojson |-> FALSE, exc |-> "JSONDecodeError", events |-> <<>>]
       ELSE LET elems == FirstN(json_loads(slice), k)
            IN IF LoopExc(elems) # "none"
               THEN [nojson |-> FALSE, exc |-> LoopExc(elems), events |-> <<>>]
               ELSE [nojson |-> FALSE, exc |-> "none",
                     events |-> [i \in DOMAIN elems |-> TransformEvent(elems[i].o)]]

\* A mutant of Caught: a handler for JSON decoding errors only.
CaughtJsonOnly(exc) == exc = "JSONDecodeError"

\* Line 1651, except Exception: every exception of the try block is caught.
Caught(exc) ==
    exc \in {"JSONDecodeError", "AttributeError", "TypeError", "ValueError",
             "HTTPError", "Timeout"}

(***************************************************************************)
(* enrich_counterparties_with_individuals: src/searxng_analyzer.py lines   *)
(* 690-852.  The reply of the enrichment request is modelled by its form   *)
(* and its entries:                                                        *)
(*   "object"  {"counterparties": [entries]};                              *)
(*   "array"   the bare array [entries];                                   *)
(*   "text"    text without braces and brackets.                           *)
(* An entry is a dict, or the non-dict BadEntry (a JSON scalar, whose text *)
(* holds no brace).                                                        *)
(***************************************************************************)
BadEntry == ("bad" :> TRUE)

IsDict(entry) == "bad" \notin DOMAIN entry

\* a in b, for two strs.
IsSubstr(a, b) ==
    \E i \in 0..(Len(b) - Len(a)) : SubSeq(b, i + 1, i + Len(a)) = a

\* Lines 784-806: the value of enrichment_data after both attempts; list says
\* whether it is a non-empty list.
\*   Object form: raw[first '{' : last '}'] is the whole object, which loads,
\* and its "counterparties" value replaces it; an empty value is falsy, and
\* the array attempt then loads the same empty list.
\*   Array form: with exactly one dict among the entries, the text from the
\* first '{' to the last '}' is that dict, which loads and has no
\* "counterparties" key: enrichment_data is a dict, the array attempt is
\* skipped.  With two dicts or more that text is no JSON and the array
\* attempt loads the list; with no dict there is no '{' and the array attempt
\* loads the list.
enrichment_data(reply) ==
    LET dicts == Cardinality({i \in DOMAIN reply.entries : IsDict(reply.entries[i])})
    IN IF reply.form = "text" THEN [list |-> FALSE, data |-> <<>>]
       ELSE IF reply.form = "object"
       THEN [list |-> reply.entries # <<>>, data |-> reply.entries]
       ELSE IF dicts = 1 THEN [list |-> FALSE, data |-> <<>>]
       ELSE [list |-> reply.entries # <<>>, data |-> reply.entries]

\* Lines 821-822.
name_matches(enrich_company, cp_name) ==
    \/ IsSubstr(enrich_company, cp_name)
    \/ IsSubstr(cp_name, enrich_company)
    \/ \E word \in SetOf(Split(enrich_company)) :
          Len(word) > 3 /\ IsSubstr(word, cp_name)

\* d[k] = v
SetKey(d, k, v) == (k :> v) @@ d

\* A mutant of add_individuals: the names appended are not remembered, so an
\* entry that names one person twice appends it twice.
RECURSIVE add_individuals_forgetful(_, _, _)
add_individuals_forgetful(individuals, existing_names, enrich_individuals) ==
    IF enrich_individuals = <<>> THEN individuals
    ELSE LET ind == Head(enrich_individuals)
             ind_name == Get(ind, "name", <<>>)
         IN IF ind_name # <<>> /\ LowerText(ind_name) \notin existing_names
            THEN add_individuals_forgetful(
                    Append(individuals,
                           [name |-> ind_name,
                            title |-> Get(ind, "title", <<>>),
                            linkedin_url |-> Get(ind, "linkedin_url", <<>>)]),
                    existing_names,
                    Tail(enrich_individuals))
            ELSE add_individuals_forgetful(individuals, existing_names,
                                           Tail(enrich_individuals))

\* A mutant of add_individuals: the names present are not looked at.
RECURSIVE add_individuals_no_dedupe(_, _, _)
add_individuals_no_dedupe(individuals, existing_names, enrich_individuals) ==
    IF enrich_individuals = <<>> THEN individuals
    ELSE LET ind == Head(enrich_individuals)
             ind_name == Get(ind, "name", <<>>)
         IN IF ind_name # <<>>
            THEN add_individuals_no_dedupe(
                    Append(individuals,
                           [name |-> ind_name,
                            title |-> Get(ind, "title", <<>>),
                            linkedin_url |-> Get(ind, "linkedin_url", <<>>)]),
                    existing_names,
                    Tail(enrich_individuals))
            ELSE add_individuals_no_dedupe(individuals, existing_names,
                                           Tail(enrich_individuals))

\* Lines 837-845: cp["individuals"] after the loop over enrich_individuals.
RECURSIVE add_individuals(_, _, _)
add_individuals(individuals, existing_names, enrich_individuals) ==
    IF enrich_individuals = <<>> THEN individuals
    ELSE LET ind == Head(enrich_individuals)
             ind_name == Get(ind, "name", <<>>)
         IN IF ind_name # <<>> /\ LowerText(ind_name) \notin existing_names
            THEN add_individuals(
                    Append(individuals,
                           [name |-> ind_name,
                            title |-> Get(ind, "title", <<>>),
                            linkedin_url |-> Get(ind, "linkedin_url", <<>>)]),
                    existing_names \cup {LowerText(ind_name)},
                    Tail(enrich_individuals))
            ELSE add_individuals(individuals, existing_names,
                                 Tail(enrich_individuals))

\* A mutant of update_url: the URL of the reply always wins.
update_url_overwrite(cp, key, enrich_url) ==
    IF enrich_url # <<>> THEN SetKey(cp, key, enrich_url) ELSE cp

\* Lines 825-830: a URL of the reply fills an empty or missing field only.
update_url(cp, key, enrich_url) ==
    IF enrich_url # <<>> /\ Get(cp, key, <<>>) = <<>>
    THEN SetKey(cp, key, enrich_url)
    ELSE cp

\* A mutant of update_counterparty: the counterparty also takes the name the
\* reply gives the company.
update_counterparty_renames(cp, enrich_cp) ==
    LET cp1 == update_url(cp, "press_release_url",
                          Get(enrich_cp, "press_release_url", <<>>))
        cp2 == update_url(cp1, "company_linkedin_url",
                          Get(enrich_cp, "company_linkedin_url", <<>>))
        individuals == Get(cp2, "individuals", <<>>)
        existing_names ==
            {LowerText(Get(individuals[i], "name", <<>>)) : i \in DOMAIN individuals}
    IN SetKey(SetKey(cp2, "company_name", Get(enrich_cp, "company", <<>>)),
              "individuals",
              add_individuals(individuals, existing_names,
                              Get(enrich_cp, "individuals", <<>>)))

\* Lines 824-845: the counterparty cp after the entry enrich_cp is merged.
update_counterparty(cp, enrich_cp) ==
    LET cp1 == update_url(cp, "press_release_url",
                          Get(enrich_cp, "press_release_url", <<>>))
        cp2 == update_url(cp1, "company_linkedin_url",
                          Get(enrich_cp, "company_linkedin_url", <<>>))
        individuals == Get(cp2, "individuals", <<>>)
        existing_names ==
            {LowerText(Get(individuals[i], "name", <<>>)) : i \in DOMAIN individuals}
    IN SetKey(cp2, "individuals",
              add_individuals(individuals, existing_names,
                              Get(enrich_cp, "individuals", <<>>)))

\* A mutant of merge_entry: every counterparty whose name matches is updated.
merge_entry_every_match(counterparties, enrich_cp) ==
    LET enrich_company == LowerText(Get(enrich_cp, "company", <<>>))
    IN [j \in DOMAIN counterparties |->
           IF name_matches(enrich_company,
                           LowerText(Get(counterparties[j], "company_name", <<>>)))
           THEN update_counterparty(counterparties[j], enrich_cp)
           ELSE counterparties[j]]

\* Lines 811-846 for one entry: the first counterparty whose name matches is
\* updated, the others are left alone.
merge_entry(counterparties, enrich_cp) ==
    LET enrich_company == LowerText(Get(enrich_cp, "company", <<>>))
        hits == {j \in DOMAIN counterparties :
                    name_matches(enrich_company,
                                 LowerText(Get(counterparties[j], "company_name", <<>>)))}
    IN IF hits = {} THEN counterparties
       ELSE LET j == CHOOSE h \in hits : \A k \in hits : h <= k
            IN [counterparties EXCEPT ![j] = update_counterparty(@, enrich_cp)]

\* Lines 808-846: the entries are merged in order; an entry that is no dict
\* raises at line 812, which ends the merge and keeps what was merged so far.
\* exc tells whether that happened.
RECURSIVE merge_enrichment(_, _)
merge_enrichment(counterparties, entries) ==
    IF entries = <<>> THEN [cps |-> counterparties, exc |-> FALSE]
    ELSE IF ~IsDict(Head(entries)) THEN [cps |-> counterparties, exc |-> TRUE]
    ELSE merge_enrichment(merge_entry(counterparties, Head(entries)), Tail(entries))

\* Lines 784-846: the counterparties after the reply; list tells whether the
\* reply gave a list to merge, exc whether merging it raised.
merge_reply(counterparties, reply) ==
    LET d == enrichment_data(reply)
        m == merge_enrichment(counterparties, d.data)
    IN [list |-> d.list,
        cps |-> IF d.list THEN m.cps ELSE counterparties,
        exc |-> d.list /\ m.exc]

\* Line 721.
cp_names(event) ==
    LET counterparties == Get(event, "counterparties", <<>>)
    IN SelectSeq([j \in DOMAIN counterparties |->
                     Get(counterparties[j], "company_name", <<>>)],
                 LAMBDA name : name # <<>>)

\* Lines 717-724: no request is sent for this event.
skips_event(event) ==
    Get(event, "counterparties", <<>>) = <<>> \/ cp_names(event) = <<>>

\* A mutant of next_index: an event whose request failed is tried again.
next_index_retry(i, outcome) ==
    IF outcome \in {"exception", "timeout", "non200"} THEN i ELSE i + 1

\* Lines 711 and 848-850: the loop goes on to the next event, whatever
\* happened to this one.
next_index(i, outcome) == i + 1

(***************************************************************************)
(* Inputs of the matching: the sentences of the specification's examples   *)
(* and every text of at most MaxWords tokens over a small vocabulary.      *)
(***************************************************************************)
AcmeAcquired == JoinWords(<<"Acme", "acquired", "Widget", "Corp">>)
AcmeBuys == JoinWords(<<"Acme", "buys", "Widget", "Corp", "Inc">>)
BetaRaises == JoinWords(<<"Beta", "raises", "Series", "A", "funding">>)

SampleTexts == {AcmeAcquired, AcmeBuys, BetaRaises}

GenVocab == {"Acme", "acme", "Corp", "the", "A"}

\* The texts of at most MaxWords words, plain and with surrounding and
\* doubled whitespace.
GenTexts ==
    LET plain == {JoinWords(ws) : ws \in SeqsUpTo(GenVocab, MaxWords)}
    IN plain \cup {<<" ">> \o t \o <<" ", " ">> \o t : t \in plain}

Texts == GenTexts \cup SampleTexts

AiEventsOf(T) ==
    {("Event (short)" :> t) : t \in T}
    \cup {("event_short" :> t) : t \in SampleTexts}
    \cup {("Event (short)" :> t @@ "event_short" :> AcmeBuys) : t \in SampleTexts}
    \cup {<<>>}

DbEventsOf(T) == {("description" :> t) : t \in T} \cup {<<>>}

(***************************************************************************)
(* SpecMatch: events_match applied to one pair of events.                  *)
(***************************************************************************)
InitMatch ==
    /\ pc = "start"
    /\ ai_event \in AiEventsOf(Texts)
    /\ db_event \in DbEventsOf(Texts)
    /\ similar = FALSE
    /\ IdleGap
    /\ IdleEvents
    /\ IdleNorm
    /\ IdleMerge
    /\ IdleServer
    /\ IdleApp
    /\ IdleMgmt
    /\ IdleSearch

EventsMatch ==
    /\ pc = "start"
    /\ similar' = events_match(ai_event, db_event)
    /\ pc' = "matched"
    /\ UNCHANGED <<ai_event, db_event, gapVars, evVars, normVars, mergeVars, srvVars, appVars, mgmtVars, searchVars>>

NextMatch == EventsMatch

SpecMatch == InitMatch /\ [][NextMatch]_vars

(***************************************************************************)
(* SpecGap: the gap analysis of one /analyze request.                      *)
(***************************************************************************)
GapTexts == SampleTexts \cup {<<"Acme", " ", "Corp">>, <<>>}

GapAiEvents ==
    {("Event (short)" :> t) : t \in GapTexts}
    \cup {("event_short" :> AcmeAcquired), <<>>}

InitGap ==
    /\ pc = "start"
    /\ ai_events \in SeqsUpTo(GapAiEvents, MaxAI)
    /\ db_events \in SeqsUpTo(DbEventsOf(SampleTexts), MaxDB)
    /\ matched_events = <<>>
    /\ missing_events = <<>>
    /\ IdleMatch
    /\ IdleEvents
    /\ IdleNorm
    /\ IdleMerge
    /\ IdleServer
    /\ IdleApp
    /\ IdleMgmt
    /\ IdleSearch

GapAnalysis ==
    /\ pc = "start"
    /\ LET r == gap_analysis(ai_events, db_events)
       IN /\ matched_events' = r[1]
          /\ missing_events' = r[2]
    /\ pc' = "done"
    /\ UNCHANGED <<ai_events, db_events, matchVars, evVars, normVars, mergeVars, srvVars, appVars, mgmtVars, searchVars>>

\* app.py, lines 904-916, on the lists /analyze classified.
AppGapAnalysis ==
    /\ pc = "done"
    /\ LET r == app_gap_analysis(ai_events, db_events)
       IN /\ app_matched_events' = r[1]
          /\ app_missing_events' = r[2]
    /\ pc' = "compared"
    /\ UNCHANGED <<gapVars, matchVars, evVars, normVars, mergeVars, srvVars, mgmtVars, searchVars>>

NextGap == GapAnalysis \/ AppGapAnalysis

SpecGap == InitGap /\ [][NextGap]_vars

(***************************************************************************)
(* Inputs of the event extraction.  Company names are spelled one          *)
(* character per atom.                                                     *)
(***************************************************************************)
NAcmeCorp == <<"A", "c", "m", "e", " ", "C", "o", "r", "p">>
NWidget == <<"W", "i", "d", "g", "e", "t">>
NAcme == <<"a", "c", "m", "e">>
NWidgetInc == <<"W", "i", "d", "g", "e", "t", " ", "I", "n", "c">>
NBetaCorp == <<"B", "e", "t", "a", " ", "C", "o", "r", "p">>
NOther == <<"x", "y">>

U0 == <<"https://acme.com/press">>
U1 == <<"https://news.example/deal">>
L1 == <<"https://www.linkedin.com/company/acme/">>

JaneDoe == <<"Jane", " ", "Doe">>

PlainObj == ("event_short" :> JStr(<<"Deal">>))

DealStatusValues ==
    {Absent, JNull, JStr(<<>>), JStr(<<" ">>), JStr(<<"Completed">>),
     JStr(<<" ", "In", " ", "Market", " ">>), JStr(<<"Pending">>)}

ClosedDateValues ==
    {Absent, JNull, JStr(<<>>), JStr(<<" ">>),
     JStr(<<"Feb", " ", "28,", " ", "2022">>)}

StatusObjs ==
    {PlainObj @@ Opt("deal_status", ds) @@ Opt("closed_date", cd) :
        ds \in DealStatusValues, cd \in ClosedDateValues}

TypeValues ==
    {Absent, JStr(<<"Majority", " ", "Investor">>),
     JStr(<<"Licensing", " ", "Partner">>),
     JStr(<<"investor", " ", "(majority)">>), JStr(<<" ", "Target">>)}

TypeIdValues ==
    {Absent, JInt(0), JInt(24), JInt(99), JStr(<<"24">>), JStr(<<"abc">>), JNull}

TypeObjs ==
    {PlainObj @@ ("counterparties" :>
        <<("company_name" :> JStr(NAcmeCorp)) @@ Opt("type", ty) @@ Opt("type_id", id)>>) :
        ty \in TypeValues, id \in TypeIdValues}

\* An acquirer with a press release and one individual, and a bare target.
EvTwo ==
    PlainObj @@ ("counterparties" :>
        <<("company_name" :> JStr(NAcmeCorp)) @@ ("type_id" :> JInt(18))
            @@ ("type" :> JStr(<<"Acquirer">>)) @@ ("press_release_url" :> JStr(U0))
            @@ ("individuals" :>
                  <<("name" :> JStr(JaneDoe)) @@ ("title" :> JStr(<<"CEO">>))>>),
          ("company_name" :> JStr(NWidget)) @@ ("type_id" :> JInt(17))
            @@ ("type" :> JStr(<<"Target">>))>>)

EvOne ==
    PlainObj @@ ("counterparties" :>
        <<("company_name" :> JStr(NAcmeCorp)) @@ ("type_id" :> JInt(17))>>)

EvNoName ==
    PlainObj @@ ("counterparties" :> <<("type_id" :> JInt(17))>>)

EvNoCps == PlainObj @@ ("counterparties" :> <<>>)

\* A counterparty under which the reply names one person twice.
EvDup ==
    PlainObj @@ ("counterparties" :>
        <<("company_name" :> JStr(NAcmeCorp)) @@ ("type_id" :> JInt(18))
            @@ ("individuals" :>
                  <<("name" :> JStr(JaneDoe)),
                    ("name" :> JStr(<<"JANE", " ", "Doe">>))>>)>>)

EvIpo == ("event_short" :> JStr(<<" ", "IPO">>))

AllObjs == StatusObjs \cup TypeObjs \cup {EvTwo, EvOne, EvNoName, EvNoCps, EvDup}

CoreElems ==
    {ObjTok(PlainObj), Tok("num"), ObjTok(EvTwo), ObjTok(EvIpo),
     ObjTok(PlainObj @@ ("deal_status" :> JStr(<<"Pending">>))),
     ObjTok(PlainObj @@ ("counterparties" :>
                <<("company_name" :> JStr(NWidget)) @@ ("type_id" :> JNull)>>))}

\* The text of the JSON array of the elements elems.
RECURSIVE Items(_)
Items(elems) ==
    IF elems = <<>> THEN <<>>
    ELSE IF Len(elems) = 1 THEN <<elems[1]>>
    ELSE <<elems[1], Tok(",")>> \o Items(Tail(elems))

ArrayOf(elems) == <<Tok("[")>> \o Items(elems) \o <<Tok("]")>>

ShapeToks ==
    {Tok("["), Tok("]"), Tok(","), Tok("txt"), Tok("num"), ObjTok(PlainObj)}

\* The replies of the LLM: every token sequence of at most MaxTokens tokens,
\* the array of every single object, the arrays of at most MaxEvents core
\* elements, bare and inside commentary, and replies cut off by the token
\* limit.  In all of them the first '[' of the text is a token of its own.
Replies ==
    SeqsUpTo(ShapeToks, MaxTokens)
    \cup {ArrayOf(<<ObjTok(o)>>) : o \in AllObjs}
    \cup {ArrayOf(es) : es \in SeqsUpTo(CoreElems, MaxEvents)}
    \cup {<<Tok("txt")>> \o ArrayOf(es) \o <<Tok("txt")>> :
            es \in SeqsUpTo(CoreElems, MaxEvents)}
    \cup {<<Tok("["), Tok("frag")>>,
          <<Tok("["), ObjTok(PlainObj), Tok(","), Tok("frag")>>,
          <<Tok("["), ObjTok(EvTwo), Tok(","), Tok("frag")>>}

Individual(name) == [name |-> name, title |-> <<"CEO">>, linkedin_url |-> <<>>]

EntryAcme ==
    [company |-> NAcme, press_release_url |-> U1, company_linkedin_url |-> L1,
     individuals |-> <<Individual(<<"jane", " ", "doe">>), Individual(<<"Bob">>)>>]

EntryWidget ==
    [company |-> NWidgetInc, press_release_url |-> <<>>, company_linkedin_url |-> L1,
     individuals |-> <<Individual(<<"Bob">>), Individual(<<"BOB">>)>>]

EntryBeta ==
    [company |-> NBetaCorp, press_release_url |-> U1, company_linkedin_url |-> <<>>,
     individuals |-> <<>>]

EntryOther ==
    [company |-> NOther, press_release_url |-> U1, company_linkedin_url |-> L1,
     individuals |-> <<Individual(<<"Bob">>)>>]

Entries == {EntryAcme, EntryWidget, EntryBeta, EntryOther, BadEntry}

TextReply == [form |-> "text", entries |-> <<>>]

\* The enrichment replies of the pipeline model, and those of the model of
\* the enrichment pass alone.
PipelineReplies ==
    {TextReply,
     [form |-> "object", entries |-> <<EntryAcme>>],
     [form |-> "object", entries |-> <<EntryWidget, BadEntry>>],
     [form |-> "array", entries |-> <<EntryAcme, EntryWidget>>]}

RichReplies ==
    {TextReply}
    \cup {[form |-> f, entries |-> es] :
            f \in {"object", "array"}, es \in SeqsUpTo(Entries, MaxEntries)}

\* A counterparty without the optional keys, as a caller other than
\* generate_corporate_events may pass it.
EvBare ==
    ("Event (short)" :> <<"Deal">>)
    @@ ("counterparties" :> <<("company_name" :> NAcmeCorp)>>)

EnrichInputs ==
    {<<>>,
     <<TransformEvent(EvTwo)>>,
     <<TransformEvent(EvTwo), TransformEvent(EvOne)>>,
     <<TransformEvent(EvNoCps), TransformEvent(EvTwo)>>,
     <<EvBare, TransformEvent(EvNoName)>>,
     <<TransformEvent(EvOne), EvBare>>}

AllKeys == {"OPENROUTER_API_KEY", "SERPAPI_KEY"}

(***************************************************************************)
(* The steps of generate_corporate_events and of the enrichment pass.      *)
(***************************************************************************)
\* Lines 988-992.
MissingKeys ==
    /\ pc = "start"
    /\ keys # AllKeys
    /\ result' = <<>>
    /\ pc' = "done"
    /\ UNCHANGED <<keys, max_events, raw, idx, raised, before, sent, outcomes,
                   matchVars, gapVars, normVars, mergeVars, srvVars, appVars, mgmtVars, searchVars>>

\* Lines 1208-1210: the searches collected nothing.
NoSearchResults ==
    /\ pc = "start"
    /\ keys = AllKeys
    /\ result' = <<>>
    /\ pc' = "done"
    /\ UNCHANGED <<keys, max_events, raw, idx, raised, before, sent, outcomes,
                   matchVars, gapVars, normVars, mergeVars, srvVars, appVars, mgmtVars, searchVars>>

\* Lines 994-1522: the searches collected results and the prompt is built.
PromptBuilt ==
    /\ pc = "start"
    /\ keys = AllKeys
    /\ pc' = "llm"
    /\ UNCHANGED <<evVars, matchVars, gapVars, normVars, mergeVars, srvVars, appVars, mgmtVars, searchVars>>

\* Lines 1525-1536 and 1651-1655: the request raises (transport error,
\* timeout, HTTP status).
LLMFails ==
    /\ pc = "llm"
    /\ \E exc \in {"HTTPError", "Timeout"} :
          /\ raised' = ~Caught(exc)
          /\ result' = <<>>
    /\ pc' = "done"
    /\ UNCHANGED <<keys, max_events, raw, idx, before, sent, outcomes,
                   matchVars, gapVars, normVars, mergeVars, srvVars, appVars, mgmtVars, searchVars>>

\* Lines 1537-1623 and 1651-1655: the reply is parsed and transformed; the
\* enrichment pass starts on the list built.
LLMReplies ==
    /\ pc = "llm"
    /\ \E reply \in Replies :
          LET r == extract_events(reply, max_events)
          IN /\ raw' = reply
             /\ IF r.nojson \/ r.exc # "none"
                THEN /\ result' = <<>>
                     /\ raised' = (r.exc # "none" /\ ~Caught(r.exc))
                     /\ pc' = "done"
                     /\ UNCHANGED <<idx, before, sent, outcomes>>
                ELSE /\ result' = r.events
                     /\ before' = r.events
                     /\ idx' = 1
                     /\ sent' = [i \in DOMAIN r.events |-> 0]
                     /\ outcomes' = <<>>
                     /\ pc' = "enrich"
                     /\ UNCHANGED raised
    /\ UNCHANGED <<keys, max_events, matchVars, gapVars, normVars, mergeVars, srvVars, appVars, mgmtVars, searchVars>>

\* Lines 703-706.
EnrichNoKey ==
    /\ pc = "enrich"
    /\ "OPENROUTER_API_KEY" \notin keys
    /\ pc' = "done"
    /\ UNCHANGED <<evVars, matchVars, gapVars, normVars, mergeVars, srvVars, appVars, mgmtVars, searchVars>>

\* Lines 717-724.
EnrichSkip ==
    /\ pc = "enrich"
    /\ "OPENROUTER_API_KEY" \in keys
    /\ idx <= Len(result)
    /\ skips_event(result[idx])
    /\ outcomes' = Append(outcomes, "skipped")
    /\ idx' = next_index(idx, "skipped")
    /\ UNCHANGED <<keys, max_events, raw, result, raised, before, sent, pc,
                   matchVars, gapVars, normVars, mergeVars, srvVars, appVars, mgmtVars, searchVars>>

\* Lines 768-781 and 848-850: the request raises, times out or is answered
\* with a status other than 200.
EnrichFails ==
    /\ pc = "enrich"
    /\ "OPENROUTER_API_KEY" \in keys
    /\ idx <= Len(result)
    /\ ~skips_event(result[idx])
    /\ \E outcome \in {"exception", "timeout", "non200"} :
          /\ outcomes' = Append(outcomes, outcome)
          /\ idx' = next_index(idx, outcome)
    /\ sent' = [sent EXCEPT ![idx] = @ + 1]
    /\ UNCHANGED <<keys, max_events, raw, result, raised, before, pc,
                   matchVars, gapVars, normVars, mergeVars, srvVars, appVars, mgmtVars, searchVars>>

\* Lines 781-850: the request is answered with status 200 and a reply of R.
EnrichReplies(R) ==
    /\ pc = "enrich"
    /\ "OPENROUTER_API_KEY" \in keys
    /\ idx <= Len(result)
    /\ ~skips_event(result[idx])
    /\ \E reply \in R :
          LET d == enrichment_data(reply)
              m == merge_enrichment(result[idx]["counterparties"], d.data)
              outcome == IF ~d.list THEN "unusable"
                         ELSE IF m.exc THEN "partial" ELSE "merged"
          IN /\ result' = IF d.list
                          THEN [result EXCEPT ![idx] =
                                   SetKey(@, "counterparties", m.cps)]
                          ELSE result
             /\ outcomes' = Append(outcomes, outcome)
             /\ idx' = next_index(idx, outcome)
    /\ sent' = [sent EXCEPT ![idx] = @ + 1]
    /\ UNCHANGED <<keys, max_events, raw, raised, before, pc, matchVars, gapVars, normVars, mergeVars, srvVars, appVars, mgmtVars, searchVars>>

\* Line 852.
EnrichReturn ==
    /\ pc = "enrich"
    /\ "OPENROUTER_API_KEY" \in keys
    /\ idx > Len(result)
    /\ pc' = "done"
    /\ UNCHANGED <<evVars, matchVars, gapVars, normVars, mergeVars, srvVars, appVars, mgmtVars, searchVars>>

(***************************************************************************)
(* SpecEvents: one call of generate_corporate_events.                      *)
(***************************************************************************)
InitEvents ==
    /\ pc = "start"
    /\ keys \in SUBSET AllKeys
    /\ max_events \in 0..MaxEventsArg
    /\ raw = <<>> /\ result = <<>> /\ idx = 0 /\ raised = FALSE
    /\ before = <<>> /\ sent = <<>> /\ outcomes = <<>>
    /\ IdleMatch
    /\ IdleGap
    /\ IdleNorm
    /\ IdleMerge
    /\ IdleServer
    /\ IdleApp
    /\ IdleMgmt
    /\ IdleSearch

NextEvents ==
    \/ MissingKeys
    \/ NoSearchResults
    \/ PromptBuilt
    \/ LLMFails
    \/ LLMReplies
    \/ EnrichSkip
    \/ EnrichFails
    \/ EnrichReplies(PipelineReplies)
    \/ EnrichReturn

SpecEvents == InitEvents /\ [][NextEvents]_vars

(***************************************************************************)
(* SpecEnrich: one call of enrich_counterparties_with_individuals.         *)
(***************************************************************************)
InitEnrich ==
    /\ pc = "enrich"
    /\ keys \in {{}, {"OPENROUTER_API_KEY"}}
    /\ result \in EnrichInputs
    /\ before = result
    /\ idx = 1
    /\ sent = [i \in DOMAIN result |-> 0]
    /\ outcomes = <<>>
    /\ max_events = 0 /\ raw = <<>> /\ raised = FALSE
    /\ IdleMatch
    /\ IdleGap
    /\ IdleNorm
    /\ IdleMerge
    /\ IdleServer
    /\ IdleApp
    /\ IdleMgmt
    /\ IdleSearch

NextEnrich ==
    \/ EnrichNoKey
    \/ EnrichSkip
    \/ EnrichFails
    \/ EnrichReplies(RichReplies)
    \/ EnrichReturn

SpecEnrich == InitEnrich /\ [][NextEnrich]_vars

(***************************************************************************)
(* SpecMerge: the merge of one enrichment reply into the counterparties of *)
(* one event (lines 784-846), done once and once again.                    *)
(***************************************************************************)
NAcmeCorporation ==
    <<"A", "c", "m", "e", " ", "C", "o", "r", "p", "o", "r", "a", "t", "i", "o", "n">>

BareCp(name) == ("company_name" :> name)

MergeCps ==
    {BareCp(NAcmeCorp), BareCp(NAcmeCorporation), BareCp(NWidget),
     TransformEvent(EvTwo)["counterparties"][1],
     TransformEvent(EvTwo)["counterparties"][2]}

InitMerge ==
    /\ pc = "merge"
    /\ mg_counterparties \in SeqsUpTo(MergeCps, MaxCps)
    /\ mg_reply \in RichReplies
    /\ mg_once = NotMerged
    /\ mg_twice = NotMerged
    /\ IdleMatch
    /\ IdleGap
    /\ IdleEvents
    /\ IdleNorm
    /\ IdleServer
    /\ IdleApp
    /\ IdleMgmt
    /\ IdleSearch

MergeReply ==
    /\ pc = "merge"
    /\ mg_once' = merge_reply(mg_counterparties, mg_reply)
    /\ pc' = "merged"
    /\ UNCHANGED <<mg_counterparties, mg_reply, mg_twice,
                   matchVars, gapVars, evVars, normVars, srvVars, appVars, mgmtVars, searchVars>>

MergeReplyAgain ==
    /\ pc = "merged"
    /\ mg_twice' = merge_reply(mg_once.cps, mg_reply)
    /\ pc' = "merged twice"
    /\ UNCHANGED <<mg_counterparties, mg_reply, mg_once,
                   matchVars, gapVars, evVars, normVars, srvVars, appVars, mgmtVars, searchVars>>

NextMerge == MergeReply \/ MergeReplyAgain

SpecMerge == InitMerge /\ [][NextMerge]_vars

(***************************************************************************)
(* The normalization helpers of src/app.py, lines 129-189.  A value passed *)
(* to them is None, a str, a native list or a native dict:                 *)
(*   t = "str", kind = "array"   the JSON text of the array of items;      *)
(*              kind = "legacy"  the blocks items, one per                 *)
(*                               '- Event Description: ...' line, each     *)
(*                               followed by its 'Date:', 'Type:' and      *)
(*                               'Value:' lines, separated by newlines;    *)
(*              kind = "object"  the JSON text of an object;               *)
(*              kind = "plain"   any other text that is not blank;         *)
(*              kind = "blank"   the empty text or whitespace;             *)
(*   t = "list"                  the native list of items;                 *)
(*   t = "dict"                  a native dict that is not empty.          *)
(* A dict is a function from its keys to texts; Scalar stands for an       *)
(* element that is no dict.                                                *)
(***************************************************************************)
NoneV == [t |-> "none", kind |-> "", items |-> <<>>]
StrV(kind, items) == [t |-> "str", kind |-> kind, items |-> items]
ListV(items) == [t |-> "list", kind |-> "", items |-> items]
DictV == [t |-> "dict", kind |-> "", items |-> <<>>]

Scalar == ("$scalar" :> <<"5">>)
IsObject(m) == "$scalar" \notin DOMAIN m

Returns(value) == [raised |-> FALSE, value |-> value]
Raises == [raised |-> TRUE, value |-> <<>>]

\* 'not v' of Python.
Falsy(v) ==
    \/ v.t = "none"
    \/ (v.t = "list" /\ v.items = <<>>)
    \/ (v.t = "str" /\ v.kind = "blank")

\* A mutant of normalize_entry: 'role' is renamed whether or not the entry
\* has a 'position'.
normalize_entry_always_renames(m) ==
    LET m1 == IF "role" \in DOMAIN m
              THEN [k \in (DOMAIN m \ {"role"}) \cup {"position"} |->
                       IF k = "position" THEN m["role"] ELSE m[k]]
              ELSE m
    IN IF "status" \notin DOMAIN m1 THEN m1 @@ ("status" :> <<"Current">>) ELSE m1

\* Lines 137-140: the body of the loop over the entries.
normalize_entry(m) ==
    LET m1 == IF "role" \in DOMAIN m /\ "position" \notin DOMAIN m
              THEN [k \in (DOMAIN m \ {"role"}) \cup {"position"} |->
                       IF k = "position" THEN m["role"] ELSE m[k]]
              ELSE m
    IN IF "status" \notin DOMAIN m1 THEN m1 @@ ("status" :> <<"Current">>) ELSE m1

\* Lines 129-144.  json.loads raises on a text that is no JSON and the loop
\* raises on an element that is no dict; the bare except turns both into [].
normalize_top_management(v) ==
    IF Falsy(v) THEN Returns(<<>>)
    ELSE IF v.t = "list" \/ (v.t = "str" /\ v.kind = "array")
    THEN IF \E i \in DOMAIN v.items : ~IsObject(v.items[i])
         THEN Returns(<<>>)
         ELSE Returns([i \in DOMAIN v.items |-> normalize_entry(v.items[i])])
    ELSE Returns(<<>>)

\* The text between the description of one block and that of the next, when
\* the first has no field line: a newline and '- Event Description: '.
BlockSep == <<" ", "-", " ", "Event", " ", "Description:", " ">>

HasField(block) == DOMAIN block # {"description"}

\* Lines 161-162: the groups re.findall returns, from block i on.  The
\* group of a block ends before its first field line; a block without field
\* lines runs on through the blocks after it, up to the first field line.
RECURSIVE legacy_matches(_, _, _)
legacy_matches(blocks, i, open) ==
    IF i > Len(blocks) THEN (IF open = <<>> THEN <<>> ELSE <<open[1]>>)
    ELSE LET text == IF open = <<>> THEN blocks[i]["description"]
                     ELSE open[1] \o BlockSep \o blocks[i]["description"]
         IN IF HasField(blocks[i])
            THEN <<text>> \o legacy_matches(blocks, i + 1, <<>>)
            ELSE legacy_matches(blocks, i + 1, <<text>>)

\* Lines 167-184: re.search finds the first block of the text whatever the
\* match is, so the fields of every event are those of the first block.
legacy_event(blocks, match) ==
    ("description" :> StripText(match))
    @@ [k \in DOMAIN blocks[1] \ {"description"} |-> StripText(blocks[1][k])]

RECURSIVE legacy_events(_, _)
legacy_events(blocks, matches) ==
    IF matches = <<>> THEN <<>>
    ELSE (IF StripText(Head(matches)) = <<>> THEN <<>>
          ELSE <<legacy_event(blocks, Head(matches))>>)
         \o legacy_events(blocks, Tail(matches))

\* Lines 146-189.  json.loads of a value that is no str raises inside the
\* try block; re.findall of such a value raises outside of it.
normalize_corporate_events(v) ==
    IF Falsy(v) THEN Returns(<<>>)
    ELSE IF v.t = "str" /\ v.kind = "array" THEN Returns(v.items)
    ELSE IF v.t = "str" /\ v.kind = "legacy"
    THEN Returns(legacy_events(v.items, legacy_matches(v.items, 1, <<>>)))
    ELSE IF v.t = "str" THEN Returns(<<>>)
    ELSE Raises

(***************************************************************************)
(* Inputs of the normalization helpers.                                    *)
(***************************************************************************)
DictsOver(names, val) == {[k \in K |-> val[k]] : K \in SUBSET names}

MgmtValues ==
    ("name" :> <<"Jane", " ", "Doe">>) @@ ("role" :> <<"CEO">>)
    @@ ("position" :> <<"CFO">>) @@ ("status" :> <<"Former">>)

MgmtEntries == DictsOver({"name", "role", "position", "status"}, MgmtValues)

EventValues == ("description" :> <<"a">>) @@ ("date" :> <<"2020">>)

EventDicts == DictsOver({"description", "date"}, EventValues)

LegacyBlocks ==
    {("description" :> d) @@ Opt("date", dt) @@ Opt("type", ty) :
        d \in {<<"a">>, <<" ", "b">>, <<" ">>},
        dt \in {Absent, <<"2020">>, <<>>},
        ty \in {Absent, <<"M&A">>}}

NormInputs ==
    {NoneV, DictV, StrV("blank", <<>>), StrV("plain", <<>>), StrV("object", <<>>)}
    \cup {StrV("array", es) : es \in SeqsUpTo(MgmtEntries \cup {Scalar}, MaxMgmt)}
    \cup {ListV(es) : es \in SeqsUpTo(MgmtEntries \cup {Scalar}, MaxMgmt)}
    \cup {StrV("array", es) : es \in SeqsUpTo(EventDicts \cup {Scalar}, MaxEvents)}
    \cup {ListV(es) : es \in SeqsUpTo(EventDicts \cup {Scalar}, MaxEvents)}
    \cup {StrV("legacy", bs) : bs \in SeqsUpTo(LegacyBlocks, MaxBlocks) \ {<<>>}}

(***************************************************************************)
(* SpecNorm: the normalization helpers applied to a value, and             *)
(* normalize_corporate_events applied again to what it returned.           *)
(***************************************************************************)
InitNorm ==
    /\ pc = "norm"
    /\ data \in NormInputs
    /\ normalized = NotCalled
    /\ normalized_twice = NotCalled
    /\ IdleMatch
    /\ IdleGap
    /\ IdleEvents
    /\ IdleMerge
    /\ IdleServer
    /\ IdleApp
    /\ IdleMgmt
    /\ IdleSearch

NormalizeTopManagement ==
    /\ pc = "norm"
    /\ normalized' = normalize_top_management(data)
    /\ pc' = "management"
    /\ UNCHANGED <<data, normalized_twice, matchVars, gapVars, evVars, mergeVars, srvVars, appVars, mgmtVars, searchVars>>

NormalizeCorporateEvents ==
    /\ pc = "norm"
    /\ normalized' = normalize_corporate_events(data)
    /\ pc' = "events"
    /\ UNCHANGED <<data, normalized_twice, matchVars, gapVars, evVars, mergeVars, srvVars, appVars, mgmtVars, searchVars>>

\* The caller passes the list returned to normalize_corporate_events again.
NormalizeCorporateEventsAgain ==
    /\ pc = "events"
    /\ ~normalized.raised
    /\ normalized_twice' = normalize_corporate_events(ListV(normalized.value))
    /\ pc' = "events twice"
    /\ UNCHANGED <<data, normalized, matchVars, gapVars, evVars, mergeVars, srvVars, appVars, mgmtVars, searchVars>>

NextNorm ==
    \/ NormalizeTopManagement
    \/ NormalizeCorporateEvents
    \/ NormalizeCorporateEventsAgain

SpecNorm == InitNorm /\ [][NextNorm]_vars

(***************************************************************************)
(* The handlers of server.py: /analyze and /refresh_db.  An external call  *)
(* is issued by one step and returns in a later one; outstanding holds the *)
(* calls issued and not yet returned, steps the steps started so far.      *)
(***************************************************************************)
AnalyzeMaxEvents == 20

\* The number of queries of each search loop of src/searxng_analyzer.py.
TestingQueries == 1
CompanyTypeQueries == 3
ContextQueries == 3
CeoQueries == 4

\* The JSON documents the database answers with.
NoIdDict == [some |-> TRUE, hasid |-> FALSE, id |-> 0, good |-> FALSE]
Company(n, wellformed) == [some |-> TRUE, hasid |-> TRUE, id |-> n, good |-> wellformed]
CompanyDocs == {NoValue, NoIdDict, Company(7, TRUE), Company(7, FALSE), Company(0, TRUE)}

\* An HTTP exchange with the database: failed stands for an exception of
\* requests.get, raise_for_status or resp.json.
HttpReplies(docs, none) ==
    {[failed |-> TRUE, doc |-> none]} \cup {[failed |-> FALSE, doc |-> d] : d \in docs}

\* Lines 36-47.
check_company_by_url(reply) ==
    IF reply.failed THEN NoValue
    ELSE IF ~reply.doc.some \/ ~reply.doc.hasid THEN NoValue
    ELSE reply.doc

\* Lines 50-60.
get_company_by_id(reply) == IF reply.failed THEN NoValue ELSE reply.doc

\* Lines 63-73: reply.doc is the list under "New_Events_Wits_Advisors".
get_corporate_events_by_company_id(reply) ==
    IF reply.failed THEN <<>> ELSE reply.doc

\* Lines 350 and 139: the truth value of
\* existing_company and existing_company.get("id").
has_company_id(company) == company.some /\ company.hasid /\ company.id # 0

\* Lines 858-963 and 147-225: the overview extracted from db_company, None
\* when there is no company or the extraction raises.
db_overview_of(company) ==
    IF company.some /\ company.good THEN [some |-> TRUE, parsed |-> TRUE]
    ELSE NoOverview

\* Lines 801-855 and 227-308: the roles extracted from db_company.
db_management_of(company) ==
    IF company.some /\ company.good THEN <<[role_id |-> company.id]>> ELSE <<>>

\* The queries: missing or blank, a company name, a URL, and URLs whose
\* host has an unbalanced bracket.
Queries ==
    {<<>>, <<" ">>, <<"Acme">>, <<" ", "Acme", " ">>,
     <<"https://", "www.", "acme", ".", "com", "/", "about">>,
     <<"https://", "[", "acme", ".", "com">>,
     <<"http://", "acme", "]">>}

\* Lines 341 and 131.
stripped_query(q) == StripText(q)

\* Line 359.
startswith_http(q) == q # <<>> /\ q[1] \in {"http://", "https://"}

RECURSIVE UpToSlash(_)
UpToSlash(s) ==
    IF s = <<>> \/ Head(s) = "/" THEN <<>> ELSE <<Head(s)>> \o UpToSlash(Tail(s))

\* urllib.parse.urlparse: the host is the text between the scheme and the
\* next '/'.
netloc(q) == UpToSlash(Tail(q))

\* urllib.parse.urlsplit raises ValueError("Invalid IPv6 URL") when the host
\* holds one of '[' and ']' without the other.
urlparse_raises(q) ==
    ("[" \in SetOf(netloc(q))) # ("]" \in SetOf(netloc(q)))

\* Lines 357-366 raise when urlparse does: they are outside every try block.
company_name_raises(q) == startswith_http(q) /\ urlparse_raises(q)

\* Lines 725, 735 and 796, except Exception.
handler_catches(exc) == exc \in {"HTTPError", "Timeout", "ValueError", "KeyError"}

\* The steps that wait for an external call, and the collaborator called.
CallSteps ==
    {"db_check", "db_company", "db_events", "wiki", "summary", "description",
     "search", "llm", "enrich", "management"}

Kind(step) ==
    CASE step \in {"db_check", "db_company", "db_events"} -> "database"
      [] step = "wiki" -> "wikipedia"
      [] step = "search" -> "search"
      [] step \in {"summary", "description", "llm", "enrich", "management"} -> "llm"
      [] OTHER -> "none"

\* A mutant of next_stage: the management is fetched before the gap
\* matching.
next_stage_management_first(ep, stage) ==
    CASE stage = "database" -> IF ep = "analyze" THEN "company_name" ELSE "respond"
      [] stage = "overview" -> "events"
      [] stage = "events" -> "management"
      [] stage = "management" -> "gap"
      [] stage = "gap" -> "respond"

\* A mutant of next_stage: /refresh_db goes on to the AI analysis.
next_stage_refresh_analyzes(ep, stage) ==
    CASE stage = "database" -> "company_name"
      [] stage = "overview" -> "events"
      [] stage = "events" -> "gap"
      [] stage = "gap" -> "management"
      [] stage = "management" -> "respond"

\* The order of the handlers' numbered sections: /analyze (lines 345-963)
\* and /refresh_db (lines 135-308).
next_stage(ep, stage) ==
    CASE stage = "database" -> IF ep = "analyze" THEN "company_name" ELSE "respond"
      [] stage = "overview" -> "events"
      [] stage = "events" -> "gap"
      [] stage = "gap" -> "management"
      [] stage = "management" -> "respond"

\* Lines 965-978.
analyze_response ==
    ("existing_company" :> existing_company) @@ ("db_company" :> db_company)
    @@ ("db_overview" :> db_overview_of(db_company)) @@ ("ai_overview" :> ai_overview)
    @@ ("db_events" :> db_events) @@ ("ai_events" :> ai_events)
    @@ ("missing_events" :> missing_events) @@ ("matched_events" :> matched_events)
    @@ ("top_management" :> top_management)
    @@ ("db_management" :> db_management_of(db_company))

\* Lines 310-323.
refresh_db_response ==
    ("existing_company" :> existing_company) @@ ("db_company" :> db_company)
    @@ ("db_overview" :> db_overview_of(db_company)) @@ ("ai_overview" :> NoOverview)
    @@ ("db_events" :> db_events) @@ ("ai_events" :> <<>>)
    @@ ("missing_events" :> <<>>) @@ ("matched_events" :> <<>>)
    @@ ("top_management" :> <<>>)
    @@ ("db_management" :> db_management_of(db_company))

\* Lines 133 and 343.
error_response == ("error" :> <<"Missing 'query' field">>)

\* The event lists of the database, the replies of the event extraction.
DbEventLists == {<<>>, <<("description" :> <<"Deal">>)>>}

ServerReplies ==
    {<<Tok("txt")>>,
     ArrayOf(<<ObjTok(EvTwo), ObjTok(EvIpo)>>),
     ArrayOf(<<ObjTok(EvOne), ObjTok(EvTwo)>>),
     ArrayOf(<<ObjTok(PlainObj), Tok("num")>>)}

\* Lines 341-343 and 131-133: a missing or blank query is answered with
\* status 400.
Validate ==
    /\ pc = "validate"
    /\ IF stripped_query(query) = <<>>
       THEN /\ status_code' = 400
            /\ response' = error_response
            /\ pc' = "responded"
       ELSE /\ pc' = "db_check"
            /\ UNCHANGED <<status_code, response>>
    /\ UNCHANGED <<endpoint, query, steps, outstanding, summary_md,
                   existing_company, db_company, ai_overview, top_management,
                   escaped, matchVars, gapVars, evVars, normVars, mergeVars, appVars, mgmtVars, searchVars>>

\* The handler issues the external call of its step and waits for it; the
\* enrichment pass sends a request for an event with a named counterparty
\* (searxng_analyzer.py, lines 711-771).
Issue ==
    /\ pc \in CallSteps
    /\ outstanding = {}
    /\ pc = "enrich" => (idx <= Len(result) /\ ~skips_event(result[idx]))
    /\ outstanding' = outstanding \cup {pc}
    /\ steps' = Append(steps, pc)
    /\ UNCHANGED <<pc, endpoint, query, summary_md, existing_company,
                   db_company, ai_overview, top_management, status_code,
                   response, escaped, matchVars, gapVars, evVars, normVars,
                   mergeVars, appVars, mgmtVars, searchVars>>

\* Lines 346-350 and 136-139.
DbCheckReturns ==
    /\ pc = "db_check"
    /\ outstanding = {"db_check"}
    /\ \E reply \in HttpReplies(CompanyDocs, NoValue) :
          LET company == check_company_by_url(reply)
          IN /\ existing_company' = company
             /\ pc' = IF has_company_id(company) THEN "db_company"
                      ELSE next_stage(endpoint, "database")
    /\ outstanding' = {}
    /\ UNCHANGED <<endpoint, query, steps, summary_md, db_company, ai_overview,
                   top_management, status_code, response, escaped, matchVars,
                   gapVars, evVars, normVars, mergeVars, appVars, mgmtVars, searchVars>>

\* Lines 352 and 141.
DbCompanyReturns ==
    /\ pc = "db_company"
    /\ outstanding = {"db_company"}
    /\ \E reply \in HttpReplies(CompanyDocs, NoValue) :
          db_company' = get_company_by_id(reply)
    /\ pc' = "db_events"
    /\ outstanding' = {}
    /\ UNCHANGED <<endpoint, query, steps, summary_md, existing_company,
                   ai_overview, top_management, status_code, response, escaped,
                   matchVars, gapVars, evVars, normVars, mergeVars, appVars, mgmtVars, searchVars>>

\* Lines 353 and 142.
DbEventsReturns ==
    /\ pc = "db_events"
    /\ outstanding = {"db_events"}
    /\ \E reply \in HttpReplies(DbEventLists, <<>>) :
          db_events' = get_corporate_events_by_company_id(reply)
    /\ pc' = next_stage(endpoint, "database")
    /\ outstanding' = {}
    /\ UNCHANGED <<ai_events, matched_events, missing_events, endpoint, query,
                   steps, summary_md, existing_company, db_company,
                   ai_overview, top_management, status_code, response, escaped,
                   matchVars, evVars, normVars, mergeVars, appVars, mgmtVars, searchVars>>

\* Lines 357-376: the company name is taken from the query and the default
\* overview is built.
CompanyName ==
    /\ pc = "company_name"
    /\ IF company_name_raises(query)
       THEN /\ escaped' = TRUE
            /\ pc' = "crashed"
            /\ UNCHANGED ai_overview
       ELSE /\ ai_overview' = [some |-> TRUE, parsed |-> FALSE]
            /\ pc' = "wiki"
            /\ UNCHANGED escaped
    /\ UNCHANGED <<endpoint, query, steps, outstanding, summary_md,
                   existing_company, db_company, top_management, status_code,
                   response, matchVars, gapVars, evVars, normVars, mergeVars, appVars, mgmtVars, searchVars>>

\* Lines 378 and 725-728: the text of Wikipedia, empty when the lookup
\* failed.
WikiReturns ==
    /\ pc = "wiki"
    /\ outstanding = {"wiki"}
    /\ pc' = "summary"
    /\ outstanding' = {}
    /\ UNCHANGED <<endpoint, query, steps, summary_md, existing_company,
                   db_company, ai_overview, top_management, status_code,
                   response, escaped, matchVars, gapVars, evVars, normVars,
                   mergeVars, appVars, mgmtVars, searchVars>>

\* Lines 379 and 725-728: generate_summary returns a text, returns an empty
\* one, or raises.
SummaryReturns ==
    /\ pc = "summary"
    /\ outstanding = {"summary"}
    /\ \E outcome \in {"markdown", "empty", "ValueError", "HTTPError"} :
          IF outcome \in {"ValueError", "HTTPError"}
          THEN /\ escaped' = ~handler_catches(outcome)
               /\ pc' = IF handler_catches(outcome)
                        THEN next_stage(endpoint, "overview") ELSE "crashed"
               /\ UNCHANGED summary_md
          ELSE /\ summary_md' = IF outcome = "markdown" THEN <<"md">> ELSE <<>>
               /\ pc' = "description"
               /\ UNCHANGED escaped
    /\ outstanding' = {}
    /\ UNCHANGED <<endpoint, query, steps, existing_company, db_company,
                   ai_overview, top_management, status_code, response,
                   matchVars, gapVars, evVars, normVars, mergeVars, appVars, mgmtVars, searchVars>>

\* Lines 380-728: generate_description returns or raises; the overview is
\* parsed from the two texts.
DescriptionReturns ==
    /\ pc = "description"
    /\ outstanding = {"description"}
    /\ \E outcome \in {"text", "empty", "HTTPError"} :
          IF outcome = "HTTPError"
          THEN /\ escaped' = ~handler_catches(outcome)
               /\ pc' = IF handler_catches(outcome)
                        THEN next_stage(endpoint, "overview") ELSE "crashed"
               /\ UNCHANGED ai_overview
          ELSE /\ ai_overview' = [some |-> TRUE,
                                  parsed |-> summary_md # <<>> \/ outcome = "text"]
               /\ pc' = next_stage(endpoint, "overview")
               /\ UNCHANGED escaped
    /\ outstanding' = {}
    /\ UNCHANGED <<endpoint, query, steps, summary_md, existing_company,
                   db_company, top_management, status_code, response,
                   matchVars, gapVars, evVars, normVars, mergeVars, appVars, mgmtVars, searchVars>>

\* Line 733 and searxng_analyzer.py, lines 990-992: generate_corporate_events
\* is entered and checks the API keys.
EventsStart ==
    /\ pc = "events"
    /\ IF keys # AllKeys
       THEN /\ result' = <<>>
            /\ pc' = "events_return"
       ELSE /\ pc' = "search"
            /\ UNCHANGED result
    /\ UNCHANGED <<keys, max_events, raw, idx, raised, before, sent, outcomes,
                   matchVars, gapVars, normVars, mergeVars, srvVars, appVars, mgmtVars, searchVars>>

\* searxng_analyzer.py, lines 994-1210: the searches found results, found
\* none, or an exception left the function (line 735 of the handler).
SearchReturns ==
    /\ pc = "search"
    /\ outstanding = {"search"}
    /\ \E outcome \in {"results", "nothing", "KeyError"} :
          IF outcome = "results"
          THEN /\ pc' = "llm"
               /\ UNCHANGED <<result, raised, escaped>>
          ELSE IF outcome = "nothing"
          THEN /\ result' = <<>>
               /\ pc' = "events_return"
               /\ UNCHANGED <<raised, escaped>>
          ELSE /\ result' = <<>>
               /\ raised' = TRUE
               /\ escaped' = ~handler_catches(outcome)
               /\ pc' = IF handler_catches(outcome) THEN "events_return"
                        ELSE "crashed"
    /\ outstanding' = {}
    /\ UNCHANGED <<keys, max_events, raw, idx, before, sent, outcomes,
                   endpoint, query, steps, summary_md, existing_company,
                   db_company, ai_overview, top_management, status_code,
                   response, matchVars, gapVars, normVars, mergeVars, appVars, mgmtVars, searchVars>>

\* searxng_analyzer.py, lines 1525-1536 and 1651-1655: the request of the
\* event extraction raises.
ExtractionFails ==
    /\ pc = "llm"
    /\ outstanding = {"llm"}
    /\ \E exc \in {"HTTPError", "Timeout"} :
          /\ raised' = ~Caught(exc)
          /\ result' = <<>>
    /\ pc' = "events_return"
    /\ outstanding' = {}
    /\ UNCHANGED <<keys, max_events, raw, idx, before, sent, outcomes,
                   endpoint, query, steps, summary_md, existing_company,
                   db_company, ai_overview, top_management, status_code,
                   response, escaped, matchVars, gapVars, normVars, mergeVars, appVars, mgmtVars, searchVars>>

\* searxng_analyzer.py, lines 1537-1623 and 1651-1655: the reply is parsed and
\* transformed; the enrichment pass starts on the list built.
ExtractionReturns ==
    /\ pc = "llm"
    /\ outstanding = {"llm"}
    /\ \E reply \in ServerReplies :
          LET r == extract_events(reply, max_events)
          IN /\ raw' = reply
             /\ IF r.nojson \/ r.exc # "none"
                THEN /\ result' = <<>>
                     /\ raised' = (r.exc # "none" /\ ~Caught(r.exc))
                     /\ pc' = "events_return"
                     /\ UNCHANGED <<idx, before, sent, outcomes>>
                ELSE /\ result' = r.events
                     /\ before' = r.events
                     /\ idx' = 1
                     /\ sent' = [i \in DOMAIN r.events |-> 0]
                     /\ outcomes' = <<>>
                     /\ pc' = "enrich"
                     /\ UNCHANGED raised
    /\ outstanding' = {}
    /\ UNCHANGED <<keys, max_events, endpoint, query, steps, summary_md,
                   existing_company, db_company, ai_overview, top_management,
                   status_code, response, escaped, matchVars, gapVars,
                   normVars, mergeVars, appVars, mgmtVars, searchVars>>

\* searxng_analyzer.py, lines 717-724: no request for an event without a
\* named counterparty.
EnrichmentSkips ==
    /\ pc = "enrich"
    /\ outstanding = {}
    /\ idx <= Len(result)
    /\ skips_event(result[idx])
    /\ outcomes' = Append(outcomes, "skipped")
    /\ idx' = next_index(idx, "skipped")
    /\ UNCHANGED <<pc, keys, max_events, raw, result, raised, before, sent,
                   matchVars, gapVars, normVars, mergeVars, srvVars, appVars, mgmtVars, searchVars>>

\* searxng_analyzer.py, lines 768-781 and 848-850.
EnrichmentFails ==
    /\ pc = "enrich"
    /\ outstanding = {"enrich"}
    /\ \E outcome \in {"exception", "timeout", "non200"} :
          /\ outcomes' = Append(outcomes, outcome)
          /\ idx' = next_index(idx, outcome)
    /\ sent' = [sent EXCEPT ![idx] = @ + 1]
    /\ outstanding' = {}
    /\ UNCHANGED <<pc, keys, max_events, raw, result, raised, before, endpoint,
                   query, steps, summary_md, existing_company, db_company,
                   ai_overview, top_management, status_code, response, escaped,
                   matchVars, gapVars, normVars, mergeVars, appVars, mgmtVars, searchVars>>

\* searxng_analyzer.py, lines 781-850.
EnrichmentReturns ==
    /\ pc = "enrich"
    /\ outstanding = {"enrich"}
    /\ \E reply \in PipelineReplies :
          LET m == merge_reply(result[idx]["counterparties"], reply)
              outcome == IF ~m.list THEN "unusable"
                         ELSE IF m.exc THEN "partial" ELSE "merged"
          IN /\ result' = [result EXCEPT ![idx] = SetKey(@, "counterparties", m.cps)]
             /\ outcomes' = Append(outcomes, outcome)
             /\ idx' = next_index(idx, outcome)
    /\ sent' = [sent EXCEPT ![idx] = @ + 1]
    /\ outstanding' = {}
    /\ UNCHANGED <<pc, keys, max_events, raw, raised, before, endpoint, query,
                   steps, summary_md, existing_company, db_company,
                   ai_overview, top_management, status_code, response, escaped,
                   matchVars, gapVars, normVars, mergeVars, appVars, mgmtVars, searchVars>>

\* searxng_analyzer.py, lines 852 and 1619-1623: every event has been
\* visited.
EnrichmentDone ==
    /\ pc = "enrich"
    /\ outstanding = {}
    /\ idx > Len(result)
    /\ pc' = "events_return"
    /\ UNCHANGED <<matchVars, gapVars, evVars, normVars, mergeVars, srvVars, appVars, mgmtVars, searchVars>>

\* Lines 731-736: ai_events is the list returned, or [] when the call raised.
EventsReturn ==
    /\ pc = "events_return"
    /\ ai_events' = IF raised THEN <<>> ELSE result
    /\ pc' = next_stage(endpoint, "events")
    /\ UNCHANGED <<db_events, matched_events, missing_events, matchVars,
                   evVars, normVars, mergeVars, srvVars, appVars, mgmtVars, searchVars>>

\* Lines 739-787.
GapMatching ==
    /\ pc = "gap"
    /\ steps' = Append(steps, "gap")
    /\ matched_events' = gap_analysis(ai_events, db_events)[1]
    /\ missing_events' = gap_analysis(ai_events, db_events)[2]
    /\ pc' = next_stage(endpoint, "gap")
    /\ UNCHANGED <<ai_events, db_events, endpoint, query, outstanding,
                   summary_md, existing_company, db_company, ai_overview,
                   top_management, status_code, response, escaped, matchVars,
                   evVars, normVars, mergeVars, appVars, mgmtVars, searchVars>>

\* Lines 790-798: get_top_management returns a list, possibly empty, or
\* raises.
ManagementReturns ==
    /\ pc = "management"
    /\ outstanding = {"management"}
    /\ \E outcome \in {"list", "nothing", "HTTPError"} :
          /\ top_management' = IF outcome = "list" THEN <<[name |-> JaneDoe]>> ELSE <<>>
          /\ escaped' = (outcome = "HTTPError" /\ ~handler_catches(outcome))
          /\ pc' = IF outcome = "HTTPError" /\ ~handler_catches(outcome) THEN "crashed"
                   ELSE next_stage(endpoint, "management")
    /\ outstanding' = {}
    /\ UNCHANGED <<endpoint, query, steps, summary_md, existing_company,
                   db_company, ai_overview, status_code, response, matchVars,
                   gapVars, evVars, normVars, mergeVars, appVars, mgmtVars, searchVars>>

\* Lines 801-978 and 144-323: the database overview and roles are extracted
\* and the response is returned.
Respond ==
    /\ pc = "respond"
    /\ response' = IF endpoint = "analyze" THEN analyze_response
                   ELSE refresh_db_response
    /\ status_code' = 200
    /\ pc' = "responded"
    /\ UNCHANGED <<endpoint, query, steps, outstanding, summary_md,
                   existing_company, db_company, ai_overview, top_management,
                   escaped, matchVars, gapVars, evVars, normVars, mergeVars, appVars, mgmtVars, searchVars>>

(***************************************************************************)
(* SpecServer: one request to /analyze or to /refresh_db.                  *)
(***************************************************************************)
InitServer ==
    /\ pc = "validate"
    /\ endpoint \in {"analyze", "refresh_db"}
    /\ query \in Queries
    /\ keys \in {AllKeys, {"OPENROUTER_API_KEY"}}
    /\ max_events = AnalyzeMaxEvents
    /\ raw = <<>> /\ result = <<>> /\ idx = 0 /\ raised = FALSE
    /\ before = <<>> /\ sent = <<>> /\ outcomes = <<>>
    /\ steps = <<>> /\ outstanding = {} /\ summary_md = <<>>
    /\ existing_company = NoValue /\ db_company = NoValue
    /\ ai_overview = NoOverview /\ top_management = <<>>
    /\ status_code = 0 /\ response = <<>> /\ escaped = FALSE
    /\ IdleMatch
    /\ IdleGap
    /\ IdleNorm
    /\ IdleMerge
    /\ IdleApp
    /\ IdleMgmt
    /\ IdleSearch

NextServer ==
    \/ Validate
    \/ Issue
    \/ DbCheckReturns
    \/ DbCompanyReturns
    \/ DbEventsReturns
    \/ CompanyName
    \/ WikiReturns
    \/ SummaryReturns
    \/ DescriptionReturns
    \/ EventsStart
    \/ SearchReturns
    \/ ExtractionFails
    \/ ExtractionReturns
    \/ EnrichmentSkips
    \/ EnrichmentFails
    \/ EnrichmentReturns
    \/ EnrichmentDone
    \/ EventsReturn
    \/ GapMatching
    \/ ManagementReturns
    \/ Respond

SpecServer == InitServer /\ [][NextServer]_vars

(***************************************************************************)
(* Claims.                                                                 *)
(***************************************************************************)
C1_StopWords ==
    {<<"the">>, <<"a">>, <<"an">>, <<"and">>, <<"or">>, <<"to">>, <<"of">>,
     <<"in">>, <<"for">>, <<"with">>, <<"by">>, <<"from">>, <<"its">>, <<"as">>}

\* The words of a text: its maximal runs without whitespace.
C1_Words(text) ==
    {SubSeq(text, p[1], p[2]) : p \in
        {q \in (DOMAIN text) \X (DOMAIN text) :
            /\ q[1] <= q[2]
            /\ \A k \in q[1]..q[2] : text[k] # " "
            /\ (q[1] = 1 \/ text[q[1] - 1] = " ")
            /\ (q[2] = Len(text) \/ text[q[2] + 1] = " ")}}

\* The keyword set of a text as the claim words it: the lower-cased words,
\* without the stop words.
C1_Keywords(text) ==
    {[i \in DOMAIN w |-> Lower(w[i])] : w \in C1_Words(text)} \ C1_StopWords

C1_AiText == Get(ai_event, "Event (short)", Get(ai_event, "event_short", <<>>))
C1_DbText == Get(db_event, "description", <<>>)

\* C1: events_match(ai_event, db_event) is true exactly when both keyword
\* sets (lower-cased words without the stop words) are non-empty and
\* |A \cap B| / max(|A|, |B|) >= 0.4, a ratio of exactly 0.4 included; so
\* 'Acme acquired Widget Corp' matches 'Acme buys Widget Corp Inc' and does
\* not match 'Beta raises Series A funding'.
C1_EventsMatchIffOverlap ==
    pc = "matched" =>
        LET A == C1_Keywords(C1_AiText)
            B == C1_Keywords(C1_DbText)
        IN /\ similar <=>
                /\ A # {}
                /\ B # {}
                /\ 5 * Cardinality(A \cap B)
                     >= 2 * Max(Cardinality(A), Cardinality(B))
           /\ (C1_AiText = AcmeAcquired /\ C1_DbText = AcmeBuys) => similar
           /\ (C1_AiText = AcmeAcquired /\ C1_DbText = BetaRaises) => ~similar

\* A pair whose ratio is exactly 2/5 has been matched.
C1_Witness ==
    /\ pc = "matched"
    /\ similar
    /\ LET A == C1_Keywords(C1_AiText)
           B == C1_Keywords(C1_DbText)
       IN /\ Cardinality(A \cap B) = 2
          /\ Max(Cardinality(A), Cardinality(B)) = 5

C2_Matched(e) == \E j \in DOMAIN db_events : events_match(e, db_events[j])

\* C2: after the gap analysis every AI event occurrence is in exactly one of
\* matched_events and missing_events, both lists keep the AI events' order,
\* an AI event is matched iff events_match holds against some database
\* event, and every AI event is missing when the database list is empty.
C2_GapPartition ==
    pc = "done" =>
        /\ matched_events = SelectSeq(ai_events, C2_Matched)
        /\ missing_events = SelectSeq(ai_events, LAMBDA e : ~C2_Matched(e))
        /\ Len(matched_events) + Len(missing_events) = Len(ai_events)
        /\ db_events = <<>> => missing_events = ai_events

\* A run that classified one event as matched and a later one as missing.
C2_Witness ==
    /\ pc = "done"
    /\ Len(ai_events) = 2
    /\ matched_events = <<ai_events[1]>>
    /\ missing_events = <<ai_events[2]>>
    /\ ai_events[1] # ai_events[2]

\* C28: the gap analysis of /analyze and that of the comparison view of
\* app.py give the same matched list and the same missing list, for every
\* list of AI events and every list of database events, the empty list and
\* the list of a failed lookup included.
C28_GapAnalysesAgree ==
    /\ pc = "compared" =>
          /\ app_matched_events = matched_events
          /\ app_missing_events = missing_events
    /\ pc \in {"start", "done", "compared"} =>
          LET failed == [failed |-> TRUE, doc |-> <<>>]
          IN app_gap_analysis(ai_events, app_db_corporate_events(failed))
                = gap_analysis(ai_events, get_corporate_events_by_company_id(failed))

\* An AI event that matches both database events, and one that matches none.
C28_Witness ==
    /\ pc = "compared"
    /\ Len(ai_events) = 2 /\ Len(db_events) = 2
    /\ events_match(ai_events[1], db_events[1])
    /\ events_match(ai_events[1], db_events[2])
    /\ app_matched_events = <<ai_events[1]>>
    /\ app_missing_events = <<ai_events[2]>>

(***************************************************************************)
(* Claims about generate_corporate_events (SpecEvents).                    *)
(***************************************************************************)
\* The text between the first '[' and the last ']' of the reply, and the
\* elements of the array it denotes.
ReplySlice == SubSeq(raw, FindOpen(raw), RFindClose(raw))
ReplyElems == json_loads(ReplySlice)

C3_NoBrackets == FindOpen(raw) = 0 \/ RFindClose(raw) = 0
C3_WrongOrder == ~C3_NoBrackets /\ RFindClose(raw) < FindOpen(raw)
C3_NotJson == ~C3_NoBrackets /\ ~json_valid(ReplySlice)
C3_NotObjects ==
    /\ ~C3_NoBrackets
    /\ json_valid(ReplySlice)
    /\ ReplyElems # <<>>
    /\ \/ \A i \in DOMAIN ReplyElems : ReplyElems[i].k # "obj"
       \/ \E i \in DOMAIN ReplyElems : i <= max_events /\ ReplyElems[i].k # "obj"

C3_Malformed == C3_NoBrackets \/ C3_WrongOrder \/ C3_NotJson \/ C3_NotObjects

\* C3: when the reply of the LLM is malformed (no '[' or no ']', brackets
\* cut off or in the wrong order, no valid JSON between the first '[' and the
\* last ']', or array elements that are no objects), the call ends with the
\* empty list and no exception leaves it.
C3_MalformedReplyGivesEmptyList ==
    (pc = "done" /\ C3_Malformed) => (result = <<>> /\ ~raised)

\* A reply holding both brackets in the right order whose slice is no JSON,
\* and a reply whose array holds a scalar, each answered with the empty list.
C3_Witness ==
    /\ pc = "done"
    /\ result = <<>> /\ ~raised
    /\ \/ (raw # <<>> /\ ~C3_WrongOrder /\ C3_NotJson /\ Len(ReplySlice) >= 3)
       \/ (C3_NotObjects /\ max_events > 0)

C6_Vocabulary ==
    {<<"Completed">>, <<"In", " ", "Market">>, <<"Not", " ", "yet", " ", "launched">>,
     <<"Strategic", " ", "Review">>, <<"Deal", " ", "Prep">>,
     <<"In", " ", "Exclusivity">>, <<"Unknown">>}

\* C6: every event returned has a 'Deal Status' that is one of the seven
\* values of the vocabulary, whatever deal_status text the reply carried.
C6_DealStatusInVocabulary ==
    pc \in {"enrich", "done"}
        => \A i \in DOMAIN result : result[i]["Deal Status"] \in C6_Vocabulary

\* A field of the reply is absent or empty: the key is missing, or its text
\* holds nothing but whitespace.
C7_Empty(e, k) ==
    \/ k \notin DOMAIN e
    \/ (e[k].t = "str" /\ \A p \in DOMAIN e[k].s : e[k].s[p] = " ")

C7_Supplied(e, k) ==
    k \in DOMAIN e /\ e[k].t = "str" /\ \E p \in DOMAIN e[k].s : e[k].s[p] # " "

\* C7: an event with a non-empty closed_date and an absent or empty
\* deal_status is returned with 'Deal Status' 'Completed'; with both absent
\* or empty it is 'Unknown'; a supplied non-empty deal_status is returned as
\* supplied (without its surrounding whitespace).
C7_DealStatusDefault ==
    pc \in {"enrich", "done"} =>
        \A i \in DOMAIN result :
            LET e == ReplyElems[i].o
                status == result[i]["Deal Status"]
            IN /\ (C7_Supplied(e, "closed_date") /\ C7_Empty(e, "deal_status"))
                    => status = <<"Completed">>
               /\ (C7_Empty(e, "closed_date") /\ C7_Empty(e, "deal_status"))
                    => status = <<"Unknown">>
               /\ C7_Supplied(e, "deal_status")
                    => status = StripText(e["deal_status"].s)

\* A returned event whose reply had a closed_date and no deal_status.
C7_Witness ==
    /\ pc = "done"
    /\ \E i \in DOMAIN result :
          /\ C7_Supplied(ReplyElems[i].o, "closed_date")
          /\ "deal_status" \notin DOMAIN ReplyElems[i].o
          /\ result[i]["Deal Status"] = <<"Completed">>

\* The fixed table of the seven role names, matched case-insensitively, with
\* the wording 'Majority Investor' of role 24; 0 for a label it does not hold.
C10_Resolve(label) ==
    LET l == LowerText(StripText(label))
    IN CASE l = <<"target">> -> 17
         [] l = <<"acquirer">> -> 18
         [] l = <<"seller">> -> 19
         [] l = <<"joint", " ", "venture", " ", "partner">> -> 20
         [] l = <<"investor", " ", "(majority)">> -> 24
         [] l = <<"majority", " ", "investor">> -> 24
         [] l = <<"investor", " ", "(minority)">> -> 25
         [] l = <<"investor", " ", "(unknown)">> -> 26
         [] OTHER -> 0

\* C10: the type_id of a returned counterparty is resolved from its free-text
\* type against the table of role names ('Majority Investor' gives 24, an
\* unrecognised text such as 'Licensing Partner' gives 0), and the label of
\* the reply is kept.
C10_TypeResolvedFromText ==
    pc \in {"enrich", "done"} =>
        \A i \in DOMAIN result :
            LET cps_in == Get(ReplyElems[i].o, "counterparties", <<>>)
                cps_out == result[i]["counterparties"]
            IN \A j \in DOMAIN cps_out :
                  ("type" \in DOMAIN cps_in[j] /\ cps_in[j]["type"].t = "str")
                      => /\ cps_out[j].type = StripText(cps_in[j]["type"].s)
                         /\ cps_out[j].type_id = C10_Resolve(cps_in[j]["type"].s)

C11_RoleCodes == {17, 18, 19, 20, 24, 25, 26}

\* C11: every counterparty of every event returned has a type_id that is
\* one of the seven role codes.
C11_TypeIdIsRoleCode ==
    pc \in {"enrich", "done"} =>
        \A i \in DOMAIN result :
            \A j \in DOMAIN result[i]["counterparties"] :
                result[i]["counterparties"][j].type_id \in C11_RoleCodes

\* C12: in every event returned, after the parsing and after the enrichment
\* pass, no counterparty holds two individuals whose names are equal
\* ignoring case.
C12_NoTwoIndividualsOfOneName ==
    pc \in {"enrich", "done"} =>
        \A i \in DOMAIN result :
            \A j \in DOMAIN result[i]["counterparties"] :
                LET inds == result[i]["counterparties"][j].individuals
                IN \A k, m \in DOMAIN inds :
                      LowerText(inds[k].name) = LowerText(inds[m].name) => k = m

\* The short description of an element of the reply, as it is returned.
C15_Short(e) ==
    IF "event_short" \in DOMAIN e THEN StripText(e["event_short"].s)
    ELSE <<"Unknown", " ", "event">>

\* C15: at most max_events events are returned, and the events returned are
\* the first elements of the array of the reply, in its order.
C15_FirstMaxEvents ==
    pc = "done" =>
        /\ Len(result) <= max_events
        /\ result # <<>> =>
              /\ Len(result) <= Len(ReplyElems)
              /\ (Len(result) = max_events \/ Len(result) = Len(ReplyElems))
              /\ \A i \in DOMAIN result :
                    result[i]["Event (short)"] = C15_Short(ReplyElems[i].o)

\* One event is returned of an array of two different events: the first.
C15_Witness ==
    /\ pc = "done"
    /\ max_events = 1
    /\ Len(result) = 1
    /\ Len(ReplyElems) = 2
    /\ C15_Short(ReplyElems[1].o) # C15_Short(ReplyElems[2].o)
    /\ result[1]["Event (short)"] = C15_Short(ReplyElems[1].o)

\* The reply is a JSON array whose first max_events elements are objects, one
\* of them with a counterparty whose type_id is null or a text that is no
\* number.
C21_WrongTypeId ==
    /\ ~C3_NoBrackets
    /\ json_valid(ReplySlice)
    /\ \A i \in DOMAIN ReplyElems : i <= max_events => ReplyElems[i].k = "obj"
    /\ \E i \in DOMAIN ReplyElems :
          /\ i <= max_events
          /\ \E j \in DOMAIN Get(ReplyElems[i].o, "counterparties", <<>>) :
                py_int_exc(Get(ReplyElems[i].o["counterparties"][j],
                               "type_id", JInt(0))) # "none"

\* C21: when a counterparty's type_id has the wrong type (null, a text that
\* is no number), the conversion error is swallowed, 0 stands for the
\* type_id, and that event and all the others are returned.
C21_WrongTypeGivesDefault ==
    (pc = "done" /\ C21_WrongTypeId)
    => /\ Len(result) = Min(max_events, Len(ReplyElems))
       /\ \A i \in DOMAIN result :
             \A j \in DOMAIN result[i]["counterparties"] :
                py_int_exc(Get(ReplyElems[i].o["counterparties"][j],
                               "type_id", JInt(0))) # "none"
                => result[i]["counterparties"][j].type_id = 0

(***************************************************************************)
(* Claims about enrich_counterparties_with_individuals (SpecEnrich).       *)
(***************************************************************************)
C4_Individuals(cp) == Get(cp, "individuals", <<>>)

\* C4: whatever the replies, under every counterparty the individuals it had
\* stay in place, no individual is appended whose lower-cased name is already
\* present under that counterparty, and a press_release_url or
\* company_linkedin_url that was non-empty before the merge is unchanged.
C4_MergeAddsNoDuplicate ==
    \A i \in DOMAIN result :
        \A j \in DOMAIN result[i]["counterparties"] :
            LET old == before[i]["counterparties"][j]
                new == result[i]["counterparties"][j]
                was == C4_Individuals(old)
                now == C4_Individuals(new)
            IN /\ Len(now) >= Len(was)
               /\ SubSeq(now, 1, Len(was)) = was
               /\ \A k \in (Len(was) + 1)..Len(now) :
                     LowerText(now[k].name)
                        \notin {LowerText(now[m].name) : m \in 1..(k - 1)}
               /\ \A key \in {"press_release_url", "company_linkedin_url"} :
                     Get(old, key, <<>>) # <<>> => Get(new, key, <<>>) = Get(old, key, <<>>)

\* A counterparty that had a press release URL and the individual Jane Doe
\* was merged with the entry that carries another URL, 'jane doe' and Bob:
\* Bob alone was appended and the URL is the old one.
C4_Witness ==
    \E i \in DOMAIN result :
        \E j \in DOMAIN result[i]["counterparties"] :
            LET old == before[i]["counterparties"][j]
                new == result[i]["counterparties"][j]
            IN /\ Get(old, "press_release_url", <<>>) = U0
               /\ Len(C4_Individuals(old)) = 1
               /\ C4_Individuals(old)[1].name = JaneDoe
               /\ Len(C4_Individuals(new)) = 2
               /\ C4_Individuals(new)[2].name = <<"Bob">>
               /\ new["press_release_url"] = U0
               /\ new["company_linkedin_url"] = L1

\* The fields of a counterparty the enrichment pass may write.
C27_Enriched == {"press_release_url", "company_linkedin_url", "individuals"}

\* d and e are the same dict but for the keys of K.
C27_SameBut(d, e, K) ==
    /\ DOMAIN d \ K = DOMAIN e \ K
    /\ \A k \in DOMAIN d \ K : d[k] = e[k]

\* C27: the enrichment pass changes nothing but the press_release_url, the
\* company_linkedin_url and the individuals of the counterparties there
\* are: the events and their order, each event's counterparties and their
\* order, and every other field of events and counterparties stay as they
\* were, 'Event (short)' among them.
C27_OnlyEnrichedFieldsChange ==
    pc \in {"enrich", "done"} =>
        /\ Len(result) = Len(before)
        /\ \A i \in DOMAIN result :
              /\ C27_SameBut(before[i], result[i], {"counterparties"})
              /\ "counterparties" \in DOMAIN result[i]
                    <=> "counterparties" \in DOMAIN before[i]
              /\ LET old == Get(before[i], "counterparties", <<>>)
                     new == Get(result[i], "counterparties", <<>>)
                 IN /\ Len(new) = Len(old)
                    /\ \A j \in DOMAIN new :
                          C27_SameBut(old[j], new[j], C27_Enriched)

\* Two events went through the pass, a reply was merged into one of them, and
\* the names of events and counterparties are those of before.
C27_Witness ==
    /\ pc = "done"
    /\ Len(result) = 2
    /\ "merged" \in SetOf(outcomes)
    /\ result # before
    /\ \A i \in DOMAIN result :
          /\ result[i]["Event (short)"] = before[i]["Event (short)"]
          /\ \A j \in DOMAIN result[i]["counterparties"] :
                Get(result[i]["counterparties"][j], "company_name", <<>>)
                   = Get(before[i]["counterparties"][j], "company_name", <<>>)

C5_Failures == {"exception", "timeout", "non200", "unusable"}

C8_WellFormed ==
    /\ data.t = "str" /\ data.kind = "array"
    /\ \A i \in DOMAIN data.items : IsObject(data.items[i])

\* C8: for a well-formed JSON-array-of-events string x,
\* normalize_corporate_events(normalize_corporate_events(x)) returns, and
\* returns what normalize_corporate_events(x) returned.
C8_Idempotent ==
    (pc = "events twice" /\ C8_WellFormed)
        => (~normalized_twice.raised /\ normalized_twice.value = normalized.value)

C9_Entries ==
    /\ data.t = "list" \/ (data.t = "str" /\ data.kind = "array")
    /\ \A i \in DOMAIN data.items : IsObject(data.items[i])

C9_StatusAndOthers(old, new) ==
    /\ new["status"] = (IF "status" \in DOMAIN old THEN old["status"] ELSE <<"Current">>)
    /\ \A k \in DOMAIN old \ {"role", "position", "status"} :
          k \in DOMAIN new /\ new[k] = old[k]
    /\ DOMAIN new \subseteq DOMAIN old \cup {"position", "status"}

\* C9: given a list or a JSON-encoded list of entries, every entry's 'role'
\* key is renamed to 'position' and 'status' is set to 'Current' when it is
\* missing; the other keys and the order of the entries are unchanged.
C9_RoleRenamed ==
    (pc = "management" /\ C9_Entries) =>
        /\ ~normalized.raised
        /\ Len(normalized.value) = Len(data.items)
        /\ \A i \in DOMAIN data.items :
              LET old == data.items[i]
                  new == normalized.value[i]
              IN /\ "role" \notin DOMAIN new
                 /\ "role" \in DOMAIN old => new["position"] = old["role"]
                 /\ ("role" \notin DOMAIN old /\ "position" \in DOMAIN old)
                       => new["position"] = old["position"]
                 /\ C9_StatusAndOthers(old, new)

\* C9 as amended: 'role' is renamed to 'position' in the entries that have
\* no 'position' key; an entry that has both keeps both as they are.
C9_RoleRenamedUnlessPosition ==
    (pc = "management" /\ C9_Entries) =>
        /\ ~normalized.raised
        /\ Len(normalized.value) = Len(data.items)
        /\ \A i \in DOMAIN data.items :
              LET old == data.items[i]
                  new == normalized.value[i]
              IN /\ "position" \in DOMAIN old
                    => /\ new["position"] = old["position"]
                       /\ ("role" \in DOMAIN new) = ("role" \in DOMAIN old)
                       /\ "role" \in DOMAIN old => new["role"] = old["role"]
                 /\ ("position" \notin DOMAIN old /\ "role" \in DOMAIN old)
                    => ("role" \notin DOMAIN new /\ new["position"] = old["role"])
                 /\ ("position" \notin DOMAIN old /\ "role" \notin DOMAIN old)
                    => ("role" \notin DOMAIN new /\ "position" \notin DOMAIN new)
                 /\ C9_StatusAndOthers(old, new)

\* The example of the claim, and an entry that has both keys.
C9_Witness ==
    /\ pc = "management"
    /\ data.t = "str" /\ data.kind = "array"
    /\ data.items =
          <<("name" :> <<"Jane", " ", "Doe">>) @@ ("role" :> <<"CEO">>),
            ("name" :> <<"Jane", " ", "Doe">>) @@ ("role" :> <<"CEO">>)
                @@ ("position" :> <<"CFO">>)>>
    /\ normalized.value[1] =
          ("name" :> <<"Jane", " ", "Doe">>) @@ ("position" :> <<"CEO">>)
              @@ ("status" :> <<"Current">>)
    /\ normalized.value[2] =
          ("name" :> <<"Jane", " ", "Doe">>) @@ ("role" :> <<"CEO">>)
              @@ ("position" :> <<"CFO">>) @@ ("status" :> <<"Current">>)

\* A value neither helper can parse: None, a native dict, or a text that
\* holds no JSON array and no legacy block.
C13_Unparseable ==
    \/ data.t \in {"none", "dict"}
    \/ (data.t = "str" /\ data.kind \in {"blank", "plain", "object"})

\* C13: normalize_top_management and normalize_corporate_events raise for no
\* value (JSON text, native list or dict, legacy text, empty value, None),
\* and return the empty list for a value that cannot be parsed.
C13_NormalizersNeverRaise ==
    pc \in {"management", "events"} =>
        /\ ~normalized.raised
        /\ C13_Unparseable => normalized.value = <<>>

(***************************************************************************)
(* Claims about the enrichment merge (SpecMerge).                          *)
(***************************************************************************)
C18_Tokens(name) == {w \in SetOf(Split(name)) : Len(w) > 3}

\* The rule of the claim, on lower-cased names.
C18_Match(e, c) ==
    \/ IsSubstr(e, c)
    \/ IsSubstr(c, e)
    \/ C18_Tokens(e) \cap C18_Tokens(c) # {}

\* A reply of one entry, merged into counterparties that hold nothing but
\* their name: the entry is applied to a counterparty iff the merge changes
\* it (the merge gives it an 'individuals' list at least).
C18_OneEntry ==
    /\ pc = "merged"
    /\ mg_reply.form = "object"
    /\ Len(mg_reply.entries) = 1
    /\ IsDict(mg_reply.entries[1])
    /\ \A j \in DOMAIN mg_counterparties :
          DOMAIN mg_counterparties[j] = {"company_name"}

\* C18: the entry of company E is applied to the counterparty C exactly when,
\* on lower-cased names, E is a substring of C, or C of E, or E and C share a
\* whitespace-delimited token longer than 3.
C18_AppliedIffNamesMatch ==
    C18_OneEntry =>
        \A j \in DOMAIN mg_counterparties :
            (mg_once.cps[j] # mg_counterparties[j])
                <=> C18_Match(LowerText(mg_reply.entries[1].company),
                              LowerText(mg_counterparties[j]["company_name"]))

C19_Mergeable ==
    /\ pc = "merged"
    /\ mg_reply.form \in {"object", "array"}
    /\ Len(mg_reply.entries) >= 1
    /\ \A i \in DOMAIN mg_reply.entries : IsDict(mg_reply.entries[i])

\* C19: a reply is merged both as an object with a 'counterparties' key and
\* as a bare array of counterparty objects, of any length of one or more:
\* the bare array gives what the object holding the same entries gives.
C19_ObjectAndArrayMerged ==
    C19_Mergeable =>
        /\ mg_once.list
        /\ mg_once = merge_reply(mg_counterparties,
                                 [form |-> "object", entries |-> mg_reply.entries])

\* C20: merging the same reply again leaves the counterparties as the first
\* merge left them.
C20_MergeIdempotent ==
    pc = "merged twice" => mg_twice.cps = mg_once.cps

\* A reply that filled a URL and appended an individual, merged again.
C20_Witness ==
    /\ pc = "merged twice"
    /\ mg_once.list
    /\ \E j \in DOMAIN mg_counterparties :
          /\ Get(mg_counterparties[j], "press_release_url", <<>>) = <<>>
          /\ Get(mg_once.cps[j], "press_release_url", <<>>) # <<>>
          /\ Len(Get(mg_once.cps[j], "individuals", <<>>))
                > Len(Get(mg_counterparties[j], "individuals", <<>>))
    /\ mg_twice.cps = mg_once.cps


\* The keys of the response of /analyze.
C14_TenKeys ==
    {"existing_company", "db_company", "db_overview", "ai_overview", "db_events",
     "ai_events", "missing_events", "matched_events", "top_management",
     "db_management"}

\* C14: for a non-empty query, /analyze answers with a JSON object of the ten
\* keys whatever collaborators fail, and no exception leaves the handler.
C14_AnalyzeAlwaysAnswers ==
    (endpoint = "analyze" /\ stripped_query(query) # <<>>)
    => /\ ~escaped
       /\ pc # "crashed"
       /\ pc = "responded" => (status_code = 200 /\ DOMAIN response = C14_TenKeys)

\* The steps of /refresh_db are database lookups only.
C16_OnlyDatabase == \A i \in DOMAIN steps : Kind(steps[i]) = "database"

\* The AI fields of the response are empty lists and a null overview.
C16_AiFieldsEmpty ==
    /\ \A k \in {"ai_events", "missing_events", "matched_events", "top_management"} :
          k \in DOMAIN response /\ response[k] = <<>>
    /\ "ai_overview" \in DOMAIN response
    /\ response["ai_overview"] = NoOverview

C17_Rank(step) ==
    CASE step = "db_check" -> 1
      [] step = "db_company" -> 2
      [] step = "db_events" -> 3
      [] step = "wiki" -> 4
      [] step = "summary" -> 5
      [] step = "description" -> 6
      [] step = "search" -> 7
      [] step = "llm" -> 8
      [] step = "enrich" -> 9
      [] step = "gap" -> 10
      [] step = "management" -> 11

C17_Ordered ==
    /\ Cardinality(outstanding) <= 1
    /\ \A i, j \in DOMAIN steps :
          i < j => \/ C17_Rank(steps[i]) < C17_Rank(steps[j])
                   \/ (steps[i] = "enrich" /\ steps[j] = "enrich")
    /\ "gap" \in SetOf(steps)
       => /\ outstanding \subseteq {"management"}
          /\ Len(outcomes) = Len(result)
          /\ ai_events = result

\* C17: within one /analyze run the steps start one after another in the
\* order database lookups, overview, event search, event extraction,
\* enrichment of each event, gap matching, management; a step starts only
\* when no external call is outstanding, and the gap matching only after
\* every event has been through the enrichment pass.
C17_StepsInOrder ==
    /\ [](endpoint = "analyze" => C17_Ordered)
    /\ [][(endpoint = "analyze" /\ steps' # steps) => outstanding = {}]_vars

C17_Witness ==
    /\ endpoint = "analyze"
    /\ pc = "responded"
    /\ steps = <<"db_check", "db_company", "db_events", "wiki", "summary",
                 "description", "search", "llm", "enrich", "enrich", "gap",
                 "management">>
    /\ matched_events # <<>>
    /\ outcomes = <<"merged", "exception">>

\* The record of a legacy block by itself: its description and its own
\* field lines.
C26_OwnRecord(block) == [k \in DOMAIN block |-> StripText(block[k])]

\* C26: for a legacy text of several blocks, normalize_corporate_events
\* returns one record per block, in the order of the text, each with the
\* description, date, type and value of its own block.
C26_OneRecordPerBlock ==
    (/\ pc = "events"
     /\ data.t = "str" /\ data.kind = "legacy"
     /\ \A i \in DOMAIN data.items : StripText(data.items[i]["description"]) # <<>>)
    => /\ ~normalized.raised
       /\ Len(normalized.value) = Len(data.items)
       /\ \A i \in DOMAIN data.items :
             normalized.value[i] = C26_OwnRecord(data.items[i])

\* The counterparties the name of the entry e matches (lines 820-822).
C29_Hits(e) ==
    {j \in DOMAIN mg_counterparties :
        name_matches(LowerText(Get(e, "company", <<>>)),
                     LowerText(Get(mg_counterparties[j], "company_name", <<>>)))}

\* C29: an entry of the reply is merged into one counterparty at most, the
\* first of the list whose name matches; an entry that matches none changes
\* nothing.  Stated of the replies of one entry.
C29_FirstMatchOnly ==
    (/\ pc = "merged"
     /\ Len(mg_reply.entries) = 1
     /\ IsDict(mg_reply.entries[1]))
    => LET hits == C29_Hits(mg_reply.entries[1])
       IN /\ Len(mg_once.cps) = Len(mg_counterparties)
          /\ \A j \in DOMAIN mg_counterparties :
                mg_once.cps[j] # mg_counterparties[j]
                => (j \in hits /\ \A h \in hits : j <= h)
          /\ hits = {} => mg_once.cps = mg_counterparties

\* The entry matches both counterparties: the first is changed, the second
\* is not.
C29_Witness ==
    /\ pc = "merged"
    /\ mg_reply.form = "object"
    /\ Len(mg_reply.entries) = 1
    /\ IsDict(mg_reply.entries[1])
    /\ C29_Hits(mg_reply.entries[1]) = {1, 2}
    /\ mg_once.cps[1] # mg_counterparties[1]
    /\ mg_once.cps[2] = mg_counterparties[2]

(***************************************************************************)
(* get_top_management, src/searxng_analyzer.py lines 491-684.  A model     *)
(* reply is                                                                *)
(*   kind = "empty"    the empty text, which openrouter_chat also returns  *)
(*                     when its request fails;                             *)
(*   kind = "text"     text with no '[' ... ']' span;                      *)
(*   kind = "badjson"  text whose '[' ... ']' span is not JSON;            *)
(*   kind = "array"    text whose '[' ... ']' span is the JSON array       *)
(*                     items.                                              *)
(* An element of the array is an object with an optional name and          *)
(* position, or a value that is not an object (a number, a string).        *)
(***************************************************************************)
Member(name, position) ==
    [obj |-> TRUE, name |-> name, position |-> position, linkedin_url |-> Absent]

NotAnObject ==
    [obj |-> FALSE, name |-> Absent, position |-> Absent, linkedin_url |-> Absent]

MemberNames ==
    {JStr(JaneDoe), JStr(<<"JANE", " ", "Doe">>), JStr(<<"Bob", " ">>),
     JStr(<<>>), JNull, JInt(17)}

MemberPositions ==
    {JStr(<<"Partner">>), JStr(<<"partner">>), JStr(<<>>), JNull, Absent}

MgmtElements ==
    {Member(n, p) : n \in MemberNames, p \in MemberPositions} \cup {NotAnObject}

MgmtReplies ==
    {[kind |-> k, items |-> <<>>] : k \in {"empty", "text", "badjson"}}
    \cup {[kind |-> "array", items |-> s] : s \in SeqsUpTo(MgmtElements, MaxMembers)}

PrimaryModel == "perplexity/sonar-pro"
FallbackModel == "anthropic/claude-3.5-sonnet"

\* One call of openrouter_chat: the model, the tag of the call and the
\* person the prompt names (empty for the extraction prompts).
ModelCall(model, tag, subject) == [model |-> model, tag |-> tag, subject |-> subject]

LinkedInUrl == <<"https://", "www.linkedin.com/in/", "jane">>

\* Lines 589-595: the array of the primary reply; no span, or a span that is
\* not JSON, leaves the empty list.
parse_primary(reply) == IF reply.kind = "array" THEN reply.items ELSE <<>>

\* Lines 618-623: the array of the fallback reply; no span, or a span that
\* is not JSON, leaves the list as it was.
parse_fallback(reply, current) ==
    IF reply.kind = "array" THEN reply.items ELSE current

needs_fallback_always(results) == TRUE

\* Line 600: "if not management_results".
needs_fallback(results) ==
    results = <<>>

\* Truth value of a JSON value in Python; an absent key reads as "".
truthy(v) ==
    CASE v.t = "str" -> v.s # <<>>
      [] v.t = "int" -> v.n # 0
      [] OTHER -> FALSE

\* Lines 630-631: m.get raises AttributeError on a value that is not a
\* dict; line 414: re.sub raises TypeError on a name that is not a str.
linkedin_step_raises(m) ==
    \/ ~m.obj
    \/ (truthy(m.name) /\ m.name.t # "str")

\* Lines 404-443: the outcomes of search_linkedin_profile for a name:
\*   "startpage"  one of the two web searches finds the profile;
\*   "ai"         the searches find nothing and the model gives the URL;
\*   "none"       the searches find nothing and the model gives none.
LinkedInOutcomes == {"startpage", "ai", "none"}

calls_model(outcome) == outcome \in {"ai", "none"}

linkedin_url_of(outcome) ==
    IF outcome = "none" THEN JStr(<<>>) ELSE JStr(LinkedInUrl)

\* m.get(key, "").strip(), lines 651-656: AttributeError unless the value
\* is a str or the key is absent.
strip_raises(v) == v.t \notin {"str", "absent"}
stripped(v) == StripText(v.s)

clean_raises(m) ==
    ~m.obj \/ strip_raises(m.name) \/ strip_raises(m.position)
    \/ strip_raises(m.linkedin_url)

dedupe_key_exact(name, position) == <<name, position>>

\* Line 661: key = (name.lower(), position.lower()).
dedupe_key(name, position) ==
    <<LowerText(name), LowerText(position)>>

clean_entry(m) ==
    [name |-> stripped(m.name), position |-> stripped(m.position),
     linkedin_url |-> IF startswith_http(stripped(m.linkedin_url))
                      THEN stripped(m.linkedin_url) ELSE <<>>]

\* Lines 648-671: the loop that cleans and deduplicates, from element i on;
\* the result is the list, or the exception that ends the loop.
RECURSIVE clean_loop(_, _, _, _)
clean_loop(results, i, seen, acc) ==
    IF i > Len(results) THEN [raised |-> FALSE, data |-> acc]
    ELSE IF clean_raises(results[i]) THEN [raised |-> TRUE, data |-> <<>>]
    ELSE LET name == stripped(results[i].name)
             position == stripped(results[i].position)
             key == dedupe_key(name, position)
         IN IF name = <<>> \/ position = <<>> \/ key \in seen
            THEN clean_loop(results, i + 1, seen, acc)
            ELSE clean_loop(results, i + 1, seen \cup {key},
                            Append(acc, clean_entry(results[i])))

InitMgmt ==
    /\ pc = "primary"
    /\ management_results = <<>>
    /\ tm_calls = <<>>
    /\ tm_i = 0
    /\ clean_data = <<>>
    /\ tm_raised = FALSE
    /\ IdleMatch
    /\ IdleGap
    /\ IdleEvents
    /\ IdleNorm
    /\ IdleMerge
    /\ IdleServer
    /\ IdleApp
    /\ IdleSearch

MgmtOthers ==
    UNCHANGED <<matchVars, gapVars, evVars, normVars, mergeVars, srvVars,
                appVars, searchVars>>

\* Lines 585-600: the primary request and the parse of its reply.
PrimaryReturns ==
    /\ pc = "primary"
    /\ \E reply \in MgmtReplies :
          /\ management_results' = parse_primary(reply)
          /\ tm_calls' = Append(tm_calls, ModelCall(PrimaryModel, "TopManagement", <<>>))
          /\ pc' = IF needs_fallback(parse_primary(reply))
                   THEN "fallback" ELSE "linkedin"
    /\ tm_i' = 1
    /\ UNCHANGED <<clean_data, tm_raised>>
    /\ MgmtOthers

\* Lines 600-623: the fallback request and the parse of its reply.
FallbackReturns ==
    /\ pc = "fallback"
    /\ \E reply \in MgmtReplies :
          management_results' = parse_fallback(reply, management_results)
    /\ tm_calls' = Append(tm_calls, ModelCall(FallbackModel, "FallbackMgmt", <<>>))
    /\ pc' = "linkedin"
    /\ UNCHANGED <<tm_i, clean_data, tm_raised>>
    /\ MgmtOthers

\* Lines 630-641 of an element that makes the loop raise.
LinkedInRaises ==
    /\ pc = "linkedin"
    /\ tm_i <= Len(management_results)
    /\ linkedin_step_raises(management_results[tm_i])
    /\ tm_raised' = TRUE
    /\ pc' = "raised"
    /\ UNCHANGED <<management_results, tm_calls, tm_i, clean_data>>
    /\ MgmtOthers

\* Lines 630-633 of an element with no name: nothing is looked up.
LinkedInSkips ==
    /\ pc = "linkedin"
    /\ tm_i <= Len(management_results)
    /\ ~linkedin_step_raises(management_results[tm_i])
    /\ ~truthy(management_results[tm_i].name)
    /\ tm_i' = tm_i + 1
    /\ UNCHANGED <<management_results, tm_calls, clean_data, tm_raised, pc>>
    /\ MgmtOthers

\* Lines 630-641 of an element with a name: search_linkedin_profile.
LinkedInLookup ==
    /\ pc = "linkedin"
    /\ tm_i <= Len(management_results)
    /\ ~linkedin_step_raises(management_results[tm_i])
    /\ truthy(management_results[tm_i].name)
    /\ \E outcome \in LinkedInOutcomes :
          /\ tm_calls' =
                IF calls_model(outcome)
                THEN Append(tm_calls,
                            ModelCall(FallbackModel, "LinkedIn",
                                      management_results[tm_i].name.s))
                ELSE tm_calls
          /\ management_results' =
                [management_results EXCEPT
                    ![tm_i].linkedin_url = linkedin_url_of(outcome)]
    /\ tm_i' = tm_i + 1
    /\ UNCHANGED <<clean_data, tm_raised, pc>>
    /\ MgmtOthers

\* Lines 648-684: the clean and deduplicate loop raises.
CleanRaises ==
    /\ pc = "linkedin"
    /\ tm_i > Len(management_results)
    /\ clean_loop(management_results, 1, {}, <<>>).raised
    /\ tm_raised' = TRUE
    /\ pc' = "raised"
    /\ UNCHANGED <<management_results, tm_calls, tm_i, clean_data>>
    /\ MgmtOthers

\* Lines 648-684: the clean and deduplicate loop and the return.
CleanReturns ==
    /\ pc = "linkedin"
    /\ tm_i > Len(management_results)
    /\ ~clean_loop(management_results, 1, {}, <<>>).raised
    /\ clean_data' = clean_loop(management_results, 1, {}, <<>>).data
    /\ pc' = "returned"
    /\ UNCHANGED <<management_results, tm_calls, tm_i, tm_raised>>
    /\ MgmtOthers

NextMgmt ==
    \/ PrimaryReturns
    \/ FallbackReturns
    \/ LinkedInRaises
    \/ LinkedInSkips
    \/ LinkedInLookup
    \/ CleanRaises
    \/ CleanReturns

SpecMgmt == InitMgmt /\ [][NextMgmt]_vars


\* C22: get_top_management never raises to its caller; replies that cannot
\* be used (empty, not JSON, an array of values that are not objects,
\* objects whose name or position is not a string) give the empty list.
C22_NeverRaises ==
    /\ tm_raised = FALSE
    /\ (pc = "returned"
        /\ \A i \in DOMAIN management_results :
              \/ ~management_results[i].obj
              \/ management_results[i].name.t # "str"
              \/ management_results[i].position.t # "str")
       => clean_data = <<>>

C23_Valid(m) == stripped(m.name) # <<>> /\ stripped(m.position) # <<>>

C23_KeyOf(m) == <<LowerText(stripped(m.name)), LowerText(stripped(m.position))>>

\* The first element of the reply that carries the pair of a returned entry.
C23_First(e) ==
    CHOOSE i \in DOMAIN management_results :
        /\ C23_Valid(management_results[i])
        /\ C23_KeyOf(management_results[i])
              = <<LowerText(e.name), LowerText(e.position)>>
        /\ \A j \in 1..(i - 1) :
              ~(/\ C23_Valid(management_results[j])
                /\ C23_KeyOf(management_results[j]) = C23_KeyOf(management_results[i]))

\* C23: the returned list has no two entries with the same (lower-cased
\* name, lower-cased position) pair, holds for each pair its first
\* occurrence in reply order, and has no entry with an empty name or an
\* empty position.
C23_FirstOfEachPair ==
    pc = "returned" =>
        /\ \A i, j \in DOMAIN clean_data :
              i # j => <<LowerText(clean_data[i].name), LowerText(clean_data[i].position)>>
                       # <<LowerText(clean_data[j].name), LowerText(clean_data[j].position)>>
        /\ \A i \in DOMAIN clean_data :
              clean_data[i].name # <<>> /\ clean_data[i].position # <<>>
        /\ \A i \in DOMAIN management_results :
              C23_Valid(management_results[i])
              => \E k \in DOMAIN clean_data :
                    <<LowerText(clean_data[k].name), LowerText(clean_data[k].position)>>
                    = C23_KeyOf(management_results[i])
        /\ \A k \in DOMAIN clean_data :
              /\ clean_data[k].name = stripped(management_results[C23_First(clean_data[k])].name)
              /\ clean_data[k].position
                    = stripped(management_results[C23_First(clean_data[k])].position)
        /\ \A k, l \in DOMAIN clean_data :
              k < l => C23_First(clean_data[k]) < C23_First(clean_data[l])

\* The reply names one person twice in different case: one entry is
\* returned, with the spelling of the first.
C23_Witness ==
    /\ pc = "returned"
    /\ Len(management_results) = 2
    /\ management_results[1].name.s # management_results[2].name.s
    /\ management_results[1].position.s # management_results[2].position.s
    /\ Len(clean_data) = 1
    /\ clean_data[1].name = stripped(management_results[1].name)

C24_Calls(P(_)) == {i \in DOMAIN tm_calls : P(tm_calls[i])}

C24_IsFallbackModel(c) == c.model = FallbackModel
C24_IsFallbackRequest(c) == c.tag = "FallbackMgmt"
C24_IsPrimaryRequest(c) == c.tag = "TopManagement"
C24_IsLinkedIn(c) == c.tag = "LinkedIn"

\* C24, as stated: the fallback model is called at most once, only after
\* the primary call has completed and only when the primary reply yielded
\* no entries, and no model call is repeated.
C24_FallbackModelOnce ==
    /\ [](/\ Cardinality(C24_Calls(C24_IsFallbackModel)) <= 1
          /\ \A i, j \in DOMAIN tm_calls : i # j => tm_calls[i] # tm_calls[j])
    /\ [][(/\ Len(tm_calls') = Len(tm_calls) + 1
           /\ C24_IsFallbackModel(tm_calls'[Len(tm_calls')]))
          => (/\ management_results = <<>>
              /\ Len(tm_calls) = 1
              /\ C24_IsPrimaryRequest(tm_calls[1]))]_vars

\* C24, amended: the fallback extraction request is sent at most once, only
\* after the primary request has completed and only when the primary reply
\* yielded no entries; the primary request is sent once; every other call
\* of the fallback model is a LinkedIn lookup, at most one per element of
\* the list.
C24_FallbackRequestOnce ==
    /\ [](/\ Cardinality(C24_Calls(C24_IsFallbackRequest)) <= 1
          /\ Cardinality(C24_Calls(C24_IsPrimaryRequest)) <= 1
          /\ Cardinality(C24_Calls(C24_IsLinkedIn)) <= Len(management_results)
          /\ \A i \in DOMAIN tm_calls :
                C24_IsFallbackModel(tm_calls[i])
                => (C24_IsFallbackRequest(tm_calls[i]) \/ C24_IsLinkedIn(tm_calls[i])))
    /\ [][(/\ Len(tm_calls') = Len(tm_calls) + 1
           /\ C24_IsFallbackRequest(tm_calls'[Len(tm_calls')]))
          => (/\ management_results = <<>>
              /\ Len(tm_calls) = 1
              /\ C24_IsPrimaryRequest(tm_calls[1]))]_vars

\* The primary reply yields nothing, the fallback request is sent, and the
\* fallback model is called again for the LinkedIn profile of an entry.
C24_Witness ==
    /\ pc = "returned"
    /\ Len(tm_calls) >= 3
    /\ C24_IsFallbackRequest(tm_calls[2])
    /\ C24_IsLinkedIn(tm_calls[3])
    /\ clean_data # <<>>

(***************************************************************************)
(* The loops of src/searxng_analyzer.py that send queries to the search    *)
(* provider:                                                               *)
(*   "company_type"  detect_company_type, lines 880-894, called by         *)
(*                   generate_corporate_events at line 997;                *)
(*   "events"        generate_corporate_events, lines 1192-1204;           *)
(*   "context"       get_top_management, lines 509-527;                    *)
(*   "ceo"           get_ceo_from_serpapi_ai, lines 1667-1693.             *)
(* sq_trace records every search request, every sleep and the extraction   *)
(* request, in the order they happen.                                      *)
(***************************************************************************)
SearchFns ==
    {"generate_corporate_events", "get_top_management", "get_ceo_from_serpapi_ai"}

TraceStep(step, loop, got) == [step |-> step, loop |-> loop, got |-> got]

\* One organic result: "title" and "link" of lines 1006-1011.
SearchResult(title, link) == [title |-> title, link |-> link]

Links == {<<>>, <<"https://", "a.example">>, <<"https://", "b.example">>}

SearchResults == {SearchResult(t, l) : t \in {<<"a">>, <<"b">>}, l \in Links}

\* What search(query) returns, lines 999-1016; the empty list also stands
\* for a request that failed.
SearchReplies == SeqsUpTo(SearchResults, MaxResults)

\* Lines 988-992.
keys_present(env) ==
    "OPENROUTER_API_KEY" \in env /\ "SERPAPI_KEY" \in env

\* Lines 1018-1023: one query in testing mode; the lists of lines 1024-1189
\* otherwise, of which the model issues MaxQueries.
event_queries(m) ==
    IF m <= 1 THEN TestingQueries ELSE MaxQueries

first_loop(fn) ==
    CASE fn = "generate_corporate_events" -> "company_type"
      [] fn = "get_top_management" -> "context"
      [] fn = "get_ceo_from_serpapi_ai" -> "ceo"

loop_queries(loop) ==
    CASE loop = "company_type" -> CompanyTypeQueries
      [] loop = "context" -> ContextQueries
      [] loop = "ceo" -> CeoQueries

\* time.sleep(0.5) is the last statement of the body of the event search
\* loop, line 1204; no other loop has one.
sleeps_after_request(loop) ==
    loop = "events"

collect_every_result(results, i, collected, seen) ==
    [collected |-> collected \o results,
     seen |-> seen \cup {results[k].link : k \in DOMAIN results}]

\* Lines 1199-1203: the results with a link not seen before are appended.
RECURSIVE collect(_, _, _, _)
collect(results, i, collected, seen) ==
    IF i > Len(results) THEN [collected |-> collected, seen |-> seen]
    ELSE IF results[i].link # <<>> /\ results[i].link \notin seen
         THEN collect(results, i + 1, Append(collected, results[i]),
                      seen \cup {results[i].link})
         ELSE collect(results, i + 1, collected, seen)

InitSearch ==
    /\ pc = "called"
    /\ sq_fn \in SearchFns
    /\ sq_keys \in SUBSET AllKeys
    /\ sq_fn # "generate_corporate_events" => sq_keys = AllKeys
    /\ sq_loop = ""
    /\ sq_queries = 0
    /\ sq_done = 0
    /\ sq_trace = <<>>
    /\ search_results = <<>>
    /\ seen_urls = {}
    /\ sq_result = ""
    /\ IdleMatch
    /\ IdleGap
    /\ IdleEvents
    /\ IdleNorm
    /\ IdleMerge
    /\ IdleServer
    /\ IdleApp
    /\ IdleMgmt

SearchOthers ==
    UNCHANGED <<matchVars, gapVars, evVars, normVars, mergeVars, srvVars,
                appVars, mgmtVars>>

\* Lines 988-992: a key is missing, the function returns [].
KeyMissing ==
    /\ pc = "called"
    /\ sq_fn = "generate_corporate_events"
    /\ ~keys_present(sq_keys)
    /\ sq_result' = "empty list"
    /\ pc' = "returned"
    /\ UNCHANGED <<sq_keys, sq_fn, sq_loop, sq_queries, sq_done, sq_trace,
                   search_results, seen_urls>>
    /\ SearchOthers

\* The function reaches its first loop.
EnterLoop ==
    /\ pc = "called"
    /\ sq_fn = "generate_corporate_events" => keys_present(sq_keys)
    /\ sq_loop' = first_loop(sq_fn)
    /\ sq_queries' = loop_queries(first_loop(sq_fn))
    /\ sq_done' = 0
    /\ pc' = "loop"
    /\ UNCHANGED <<sq_keys, sq_fn, sq_trace, search_results, seen_urls, sq_result>>
    /\ SearchOthers

\* One request of a loop that gathers text: lines 887-894, 515-527,
\* 1674-1693.
ContextSearch ==
    /\ pc = "loop"
    /\ sq_loop # "events"
    /\ sq_done < sq_queries
    /\ sq_trace' = Append(sq_trace, TraceStep("search", sq_loop, 0))
    /\ sq_done' = sq_done + 1
    /\ pc' = IF sleeps_after_request(sq_loop) THEN "sleep" ELSE "loop"
    /\ UNCHANGED <<sq_keys, sq_fn, sq_loop, sq_queries, search_results,
                   seen_urls, sq_result>>
    /\ SearchOthers

\* Line 997 returns: the queries of the event search are chosen, lines
\* 1018-1189.
CompanyTypeDetected ==
    /\ pc = "loop"
    /\ sq_loop = "company_type"
    /\ sq_done = sq_queries
    /\ \E m \in {1, AnalyzeMaxEvents} : sq_queries' = event_queries(m)
    /\ sq_loop' = "events"
    /\ sq_done' = 0
    /\ UNCHANGED <<pc, sq_keys, sq_fn, sq_trace, search_results, seen_urls,
                   sq_result>>
    /\ SearchOthers

\* One request of the event search and the collection of its results,
\* lines 1196-1203.
EventSearch ==
    /\ pc = "loop"
    /\ sq_loop = "events"
    /\ sq_done < sq_queries
    /\ \E results \in SearchReplies :
          /\ sq_trace' = Append(sq_trace, TraceStep("search", sq_loop, Len(results)))
          /\ search_results' = collect(results, 1, search_results, seen_urls).collected
          /\ seen_urls' = collect(results, 1, search_results, seen_urls).seen
    /\ sq_done' = sq_done + 1
    /\ pc' = IF sleeps_after_request(sq_loop) THEN "sleep" ELSE "loop"
    /\ UNCHANGED <<sq_keys, sq_fn, sq_loop, sq_queries, sq_result>>
    /\ SearchOthers

\* Line 1204.
Sleep ==
    /\ pc = "sleep"
    /\ sq_trace' = Append(sq_trace, TraceStep("sleep", sq_loop, 0))
    /\ pc' = "loop"
    /\ UNCHANGED <<sq_keys, sq_fn, sq_loop, sq_queries, sq_done,
                   search_results, seen_urls, sq_result>>
    /\ SearchOthers

\* Lines 1208-1210.
NoResultCollected ==
    /\ pc = "loop"
    /\ sq_loop = "events"
    /\ sq_done = sq_queries
    /\ search_results = <<>>
    /\ sq_result' = "empty list"
    /\ pc' = "returned"
    /\ UNCHANGED <<sq_keys, sq_fn, sq_loop, sq_queries, sq_done, sq_trace,
                   search_results, seen_urls>>
    /\ SearchOthers

\* Lines 1524-1536: the extraction request; what becomes of its reply is
\* the matter of SpecEvents.
ExtractionRequest ==
    /\ pc = "loop"
    /\ sq_loop = "events"
    /\ sq_done = sq_queries
    /\ search_results # <<>>
    /\ sq_trace' = Append(sq_trace, TraceStep("llm", sq_loop, 0))
    /\ sq_result' = "events of the reply"
    /\ pc' = "returned"
    /\ UNCHANGED <<sq_keys, sq_fn, sq_loop, sq_queries, sq_done,
                   search_results, seen_urls>>
    /\ SearchOthers

\* The loop of get_top_management or get_ceo_from_serpapi_ai ends; the
\* function goes on with the text gathered.
ContextGathered ==
    /\ pc = "loop"
    /\ sq_loop \in {"context", "ceo"}
    /\ sq_done = sq_queries
    /\ sq_result' = "text gathered"
    /\ pc' = "returned"
    /\ UNCHANGED <<sq_keys, sq_fn, sq_loop, sq_queries, sq_done, sq_trace,
                   search_results, seen_urls>>
    /\ SearchOthers

NextSearch ==
    \/ KeyMissing
    \/ EnterLoop
    \/ ContextSearch
    \/ CompanyTypeDetected
    \/ EventSearch
    \/ Sleep
    \/ NoResultCollected
    \/ ExtractionRequest
    \/ ContextGathered

SpecSearch == InitSearch /\ [][NextSearch]_vars

C25_Searches == {i \in DOMAIN sq_trace : sq_trace[i].step = "search"}

\* C25: in every loop that sends queries to the search provider (event
\* search, company-type detection, management context search, CEO search)
\* a sleep step lies between any two consecutive search requests.
C25_SleepBetweenRequests ==
    \A i, j \in C25_Searches :
        (/\ i < j
         /\ sq_trace[i].loop = sq_trace[j].loop
         /\ \A k \in (i + 1)..(j - 1) : k \notin C25_Searches)
        => \E k \in (i + 1)..(j - 1) : sq_trace[k].step = "sleep"

C30_Generate == sq_fn = "generate_corporate_events"

\* C30: in generate_corporate_events the extraction request is sent only
\* after every search query has finished and a result was collected; with
\* an API key missing no search and no extraction request is sent; the
\* collected results hold no link twice and no empty link; with no result
\* collected the function returns the empty list.
C30_SearchThenExtraction ==
    /\ [](C30_Generate =>
            /\ ~keys_present(sq_keys) => sq_trace = <<>>
            /\ \A i, j \in DOMAIN search_results :
                  i # j => search_results[i].link # search_results[j].link
            /\ \A i \in DOMAIN search_results : search_results[i].link # <<>>
            /\ \A i \in DOMAIN sq_trace :
                  sq_trace[i].step = "llm"
                  => (/\ i = Len(sq_trace)
                      /\ search_results # <<>>
                      /\ sq_loop = "events"
                      /\ sq_done = sq_queries)
            /\ (pc = "returned" /\ search_results = <<>>)
               => (/\ sq_result = "empty list"
                   /\ \A i \in DOMAIN sq_trace : sq_trace[i].step # "llm"))
    /\ [][(C30_Generate /\ Len(sq_trace') > Len(sq_trace)
           /\ sq_trace'[Len(sq_trace')].step = "llm")
          => (/\ sq_loop = "events"
              /\ sq_done = sq_queries
              /\ pc = "loop"
              /\ search_results # <<>>)]_vars

\* Two queries were made, the results named one link more than once, one
\* result was kept and the extraction request followed.
C30_Witness ==
    /\ C30_Generate
    /\ pc = "returned"
    /\ sq_trace # <<>>
    /\ sq_trace[Len(sq_trace)].step = "llm"
    /\ Len(search_results) = 1
    /\ \E i, j \in DOMAIN sq_trace :
          i < j /\ sq_trace[i].got = 2 /\ sq_trace[j].got >= 1

=============================================================================
